---- MODULE Spec2Model ----
(***************************************************************************)
(* Regulation revenue estimation engine of der_revenue_engine:             *)
(*   dre/markets/pjm/estimate_frequency.py  (selector, payments)           *)
(*   dre/markets/pjm/cache.py               (monthly cache, window stitch) *)
(*   tools/prefetch_pjm_cache.py            (the prefetch window)          *)
(*   dre/clients/pjm.py                     (HTTP GET with retries)        *)
(*                                                                         *)
(* Numbers are exact rationals [k, n, d]; k = "num" for n/d, "nan" for a   *)
(* missing value (NaN), "inf" for +/- infinity (sign in n), "str" for a    *)
(* raw cell that is not a number.  Float rounding is not modelled.         *)
(* Timestamps are whole hours (0, 1, 2, ...); NaT is a missing timestamp   *)
(* and Garbage a raw cell that does not parse as a date.                   *)
(***************************************************************************)
EXTENDS Integers, Sequences, FiniteSets, TLC

\* ------------------------------------------------------------------ bounds
\* latest hour that may occur in an hourly series given to the estimator
MaxHour == 2
\* most rows of an hourly series given to the estimator
MaxRows == 3
\* largest hours budget (n_hours) requested
MaxBudget == 3
\* most rows of an hourly series in the payment specification
MaxPayRows == 2
\* months of the modelled calendar
NMonths == 3
\* hours of a month
HoursPerMonth == 2
\* largest annual_cycles given to the budget converter
MaxCycles == 3
\* largest trailing-months count given to the prefetch command
MaxTrailing == 14
\* largest max_retries of a PJMClient
MaxRetries == 3

\* ------------------------------------------------------------- numbers
NaT == -1
Garbage == -2

Abs(x) == IF x < 0 THEN -x ELSE x

RECURSIVE GCD(_, _)
GCD(a, b) == IF b = 0 THEN a ELSE GCD(b, a % b)

NaN == [k |-> "nan", n |-> 0, d |-> 1]
Inf(sign) == [k |-> "inf", n |-> sign, d |-> 1]
Str == [k |-> "str", n |-> 0, d |-> 1]

\* the rational n/d (d # 0) in lowest terms with a positive denominator
Num(n, d) ==
    LET g == GCD(Abs(n), Abs(d))
        s == IF d < 0 THEN -1 ELSE 1
    IN  [k |-> "num", n |-> (s * n) \div g, d |-> (s * d) \div g]

Int2Num(i) == Num(i, 1)
IsNaN(a) == a.k = "nan"
IsNum(a) == a.k = "num"
Sign(a) == IF a.n > 0 THEN 1 ELSE IF a.n < 0 THEN -1 ELSE 0

\* IEEE multiplication on the extended rationals
Mul(a, b) ==
    IF IsNaN(a) \/ IsNaN(b) THEN NaN
    ELSE IF a.k = "inf" \/ b.k = "inf"
         THEN IF Sign(a) * Sign(b) = 0 THEN NaN ELSE Inf(Sign(a) * Sign(b))
         ELSE Num(a.n * b.n, a.d * b.d)

\* IEEE addition on the extended rationals
Add(a, b) ==
    IF IsNaN(a) \/ IsNaN(b) THEN NaN
    ELSE IF a.k = "inf" /\ b.k = "inf"
         THEN IF a.n = b.n THEN a ELSE NaN
         ELSE IF a.k = "inf" THEN a
         ELSE IF b.k = "inf" THEN b
         ELSE Num(a.n * b.d + b.n * a.d, a.d * b.d)

\* IEEE division on the extended rationals (x/0 is +/-inf, 0/0 is NaN)
Div(a, b) ==
    IF IsNaN(a) \/ IsNaN(b) THEN NaN
    ELSE IF a.k = "inf"
         THEN IF b.k = "inf" THEN NaN
              ELSE Inf(IF b.n < 0 THEN -a.n ELSE a.n)
         ELSE IF b.k = "inf" THEN Num(0, 1)
         ELSE IF b.n = 0
              THEN IF a.n = 0 THEN NaN ELSE Inf(Sign(a))
              ELSE Num(a.n * b.d, a.d * b.n)

\* a < b on numbers (any comparison with NaN is false)
Less(a, b) ==
    IF IsNaN(a) \/ IsNaN(b) THEN FALSE
    ELSE IF a.k = "inf" THEN a.n < 0 /\ ~(b.k = "inf" /\ b.n < 0)
    ELSE IF b.k = "inf" THEN b.n > 0
    ELSE a.n * b.d < b.n * a.d

\* pd.to_numeric(x, errors="coerce"): a cell that is not a number becomes NaN
ToNumeric(x) == IF x.k = "str" THEN NaN ELSE x

\* Series.fillna(v)
FillNa(x, v) == IF IsNaN(x) THEN v ELSE x

\* pd.to_datetime(x, errors="coerce"): a cell that is not a date becomes NaT
ToDatetime(t) == IF t >= 0 THEN t ELSE NaT

\* ------------------------------------------------------------ sequences
Range(s) == {s[i] : i \in 1..Len(s)}

RECURSIVE SeqSum(_)
SeqSum(s) == IF s = <<>> THEN Num(0, 1) ELSE Add(Head(s), SeqSum(Tail(s)))

\* the sequences over S of length at most n
SeqsUpTo(S, n) == UNION {[1..m -> S] : m \in 0..n}

\* DataFrame.dropna(subset=["datetime_beginning_ept"])
RECURSIVE DropNaT(_)
DropNaT(s) ==
    IF s = <<>> THEN <<>>
    ELSE IF Head(s).ts # NaT THEN <<Head(s)>> \o DropNaT(Tail(s))
         ELSE DropNaT(Tail(s))

\* mutant: no row is dropped
DropDuplicatesOmitted(s) == s

\* drop_duplicates with keep="last"
DropDuplicatesKeepLast(s) ==
    LET last(i) == \A j \in (i + 1)..Len(s) : s[j].ts # s[i].ts
        idx == {i \in 1..Len(s) : last(i)}
        RECURSIVE build(_)
        build(i) == IF i > Len(s) THEN <<>>
                    ELSE IF i \in idx THEN <<s[i]>> \o build(i + 1)
                    ELSE build(i + 1)
    IN  build(1)

\* DataFrame.drop_duplicates("datetime_beginning_ept"): keep="first"
DropDuplicates(s) ==
    LET first(i) == \A j \in 1..(i - 1) : s[j].ts # s[i].ts
        idx == {i \in 1..Len(s) : first(i)}
        RECURSIVE build(_)
        build(i) == IF i > Len(s) THEN <<>>
                    ELSE IF i \in idx THEN <<s[i]>> \o build(i + 1)
                    ELSE build(i + 1)
    IN  build(1)

\* the permutations of 1..n as sequences
Perms(n) == {p \in [1..n -> 1..n] : \A i, j \in 1..n : i # j => p[i] # p[j]}

\* Perms(n) for each series length the model explores in full
PermsOf == [n \in 0..MaxRows |-> Perms(n)]

\* row r put in its place in the ascending rows t
RECURSIVE InsertByTs(_, _)
InsertByTs(r, t) ==
    IF t = <<>> THEN <<r>>
    ELSE IF r.ts < Head(t).ts THEN <<r>> \o t
         ELSE <<Head(t)>> \o InsertByTs(r, Tail(t))

\* DataFrame.sort_values("datetime_beginning_ept") on rows whose timestamps
\* all differ: the one ascending arrangement
RECURSIVE SortUnique(_)
SortUnique(s) == IF s = <<>> THEN <<>> ELSE InsertByTs(Head(s), SortUnique(Tail(s)))

\* the elements of a finite set of integers, ascending
RECURSIVE Ascending(_)
Ascending(S) ==
    IF S = {} THEN <<>>
    ELSE LET m == CHOOSE x \in S : \A y \in S : x <= y
         IN  <<m>> \o Ascending(S \ {m})

\* floor of the rational a
Floor(a) == a.n \div a.d

\* Python's round(x) on a float: to the nearest integer, a half to the even one
Round(a) ==
    LET f == Floor(a)
        twice == Num(2 * (a.n - f * a.d), a.d)
    IN  IF Less(twice, Num(1, 1)) THEN f
        ELSE IF Less(Num(1, 1), twice) THEN f + 1
        ELSE IF f % 2 = 0 THEN f ELSE f + 1

\* ---------------------------------------------------------------- state
VARIABLES
    \* estimate_reg_revenue_top_n: the arguments
    hourly_df, nameplate_mw, duration_hours, n_hours, ranking, performance_score,
    \* estimate_reg_revenue_top_n: where the call is (start, pick, done)
    pc,
    \* the cleaned frame (df after line 207) and the score of each of its rows
    df, score,
    \* _pick_top_n_with_duration_guard: tmp, order, the loop's position in
    \* order, the chosen mask (positions of tmp), n_selected, max_consecutive
    tmp, order, visited, chosen, n_selected, max_consecutive,
    \* the result: the selected hours with their credits, and the summary
    sel, summary,
    \* the cache directory: the prices, market and combined partition of
    \* each month
    prices_fs, market_fs, combined_fs,
    \* load_or_fetch_window_report: the arguments (start, end, fetch_missing,
    \* whether a client is given)
    start, end, fetch_missing, has_client,
    \* load_or_fetch_window_report: where the call is (loop, return, done), the
    \* months of the window, the loop's position, parts, report, the result
    spc, months, mi, parts, report, out,
    \* the months for which the client's price request raised in this call,
    \* and the month of each request made to the client in this call
    raised, client_calls,
    \* _merge_and_compute_ratio: the arguments, where the call is, the result
    mrg_prices, mrg_mkt, mrg_pc, mrg_df,
    \* compute_n_hours_from_cycles: the arguments besides bess
    annual_cycles, throughput_ratio_mwh_per_hour, window_hours,
    \* calls of load_or_fetch_window_report one after another: how many
    \* were begun, the cache directory before the first, and what the first
    \* returned
    calls, first_cache, first_out, first_report,
    \* the answers the client may give to the requests for each month, and
    \* the cache directory after the first call
    client, first_after,
    \* calls of estimate_reg_revenue_top_n one after another: whether one has
    \* returned, and the hours it selected
    first_sel,
    \* _start_end_for_months: the current month, the months argument, where
    \* the call is, the window it returns and the months of that window
    today, trailing, pf_pc, pf_window, pf_listed,
    \* PJMClient._get: max_retries, the attempt the loop is at, the status of
    \* each response so far, last_exc, where the call is, what it gave
    max_retries, attempt, responses, last_exc, get_pc, get_result

estVars == <<hourly_df, nameplate_mw, duration_hours, n_hours, ranking,
             performance_score, pc, df, score, tmp, order, visited, chosen,
             n_selected, max_consecutive, sel, summary>>

stVars == <<prices_fs, market_fs, combined_fs, start, end, fetch_missing,
            has_client, spc, months, mi, parts, report, out, raised,
            client_calls>>

mrgVars == <<mrg_prices, mrg_mkt, mrg_pc, mrg_df>>

cnvVars == <<annual_cycles, throughput_ratio_mwh_per_hour, window_hours>>

pfVars == <<today, trailing, pf_pc, pf_window, pf_listed>>

getVars == <<max_retries, attempt, responses, last_exc, get_pc, get_result>>

repVars == <<calls, first_cache, first_out, first_report, client, first_after,
             first_sel>>

\* ------------------------------------------------------ payment calculator
\* _num_col: the column as numbers (a cell that is no number reads as NaN)
NumCol(row, col) == ToNumeric(row[col])

\* mutant: the capability credit is divided by the performance score
CapabilityCreditPerScore(row, mw, perf) ==
    Div(Mul(NumCol(row, "rmccp"), Mul(mw, Num(1, 1))), perf)

CapabilityCredit(row, mw, perf) ==
    Mul(Mul(NumCol(row, "rmccp"), Mul(mw, Num(1, 1))), perf)

\* mutant: the mileage ratio is left out of the performance credit
PerformanceCreditNoMileage(row, mw, perf) ==
    Mul(Mul(NumCol(row, "rmpcp"), Mul(mw, Num(1, 1))), perf)

PerformanceCredit(row, mw, perf) ==
    Mul(Mul(Mul(NumCol(row, "rmpcp"), Mul(mw, Num(1, 1))),
            FillNa(NumCol(row, "mileage_ratio"), Num(1, 1))), perf)

\* _hourly_payment_components for one row: (cap, perf_cr, total)
HourlyPaymentComponents(row, mw, perf) ==
    LET cap == CapabilityCredit(row, mw, perf)
        perf_cr == PerformanceCredit(row, mw, perf)
    IN  [cap |-> FillNa(cap, Num(0, 1)),
         perf |-> FillNa(perf_cr, Num(0, 1)),
         total |-> FillNa(Add(FillNa(cap, Num(0, 1)), FillNa(perf_cr, Num(0, 1))),
                          Num(0, 1))]

\* _rank_vector for one row
RankVector(row, mw, perf, rk) ==
    IF rk = "rmccp" THEN NumCol(row, "rmccp")
    ELSE IF rk = "rmpcp" THEN NumCol(row, "rmpcp")
    ELSE HourlyPaymentComponents(row, mw, perf).total

\* ---------------------------------------------------------------- selector
\* lines 205-207 and 121-125: parse the timestamps, drop the rows without
\* one, keep the first row of each timestamp, sort ascending
ParseTs(s) == [i \in 1..Len(s) |-> [s[i] EXCEPT !.ts = ToDatetime(s[i].ts)]]

CleanFrame(s) == SortUnique(DropDuplicates(DropNaT(ParseTs(s))))

\* tmp of _pick_top_n_with_duration_guard: the rows of frame f with the index
\* each has in f (reset_index(drop=False))
WithIndex(f) == [i \in 1..Len(f) |-> [index |-> i, ts |-> f[i].ts]]

PickFrame(f) == SortUnique(DropDuplicates(DropNaT(ParseTs(DropNaT(WithIndex(f))))))

\* whether order o visits the scores v in non-increasing order
Descending(o, v) == \A i, j \in 1..Len(o) : i < j => ~Less(v[o[i]], v[o[j]])

\* the rotations of 1..n, forwards and backwards
Rotations(n) ==
    {[i \in 1..n |-> ((i - 1 + r) % n) + 1] : r \in 0..(n - 1)}
    \cup {[i \in 1..n |-> ((n - i + r) % n) + 1] : r \in 0..(n - 1)}

\* the rearrangements of n rows the model explores: all of them for a series
\* of up to MaxRows rows, the rotations for a longer one
Arrangements(n) == IF n <= MaxRows THEN PermsOf[n] ELSE Rotations(n)

\* position p put before the first of t whose score is not above its own
RECURSIVE InsertByScore(_, _, _)
InsertByScore(p, t, v) ==
    IF t = <<>> THEN <<p>>
    ELSE IF Less(v[p], v[Head(t)]) THEN <<Head(t)>> \o InsertByScore(p, Tail(t), v)
         ELSE <<p>> \o t

\* the positions ps in non-increasing score v, equal scores in time order
RECURSIVE StableDescending(_, _)
StableDescending(ps, v) ==
    IF ps = <<>> THEN <<>>
    ELSE InsertByScore(Head(ps), StableDescending(Tail(ps), v), v)

\* Series.sort_values(ascending=False) with the default kind="quicksort",
\* which is not a stable sort: any arrangement of the scored rows with
\* non-increasing score may come back (equal scores in any order); the rows
\* without a score follow in their original order (na_position="last").
\* t is tmp, sc the score by index; the result lists index labels.
SortValuesDescending(t, sc) ==
    LET scored == Ascending({p \in 1..Len(t) : ~IsNaN(sc[t[p].index])})
        unscored == Ascending({p \in 1..Len(t) : IsNaN(sc[t[p].index])})
        label(ps) == [i \in 1..Len(ps) |-> t[ps[i]].index]
        v == [p \in 1..Len(t) |-> sc[t[p].index]]
        stable == StableDescending(scored, v)
        by(q) == [i \in 1..Len(stable) |-> stable[q[i]]]
    IN  {label(by(q)) \o label(unscored) :
            q \in {a \in Arrangements(Len(stable)) : Descending(by(a), v)}}

\* pos_map.get(idx): the position in tmp of index label idx (0: none)
PosMap(t, idx) ==
    IF \E p \in 1..Len(t) : t[p].index = idx
    THEN CHOOSE p \in 1..Len(t) : t[p].index = idx
    ELSE 0

\* the number of chosen positions directly below pos
RECURSIVE RunBelow(_, _)
RunBelow(ch, i) == IF i >= 1 /\ i \in ch THEN 1 + RunBelow(ch, i - 1) ELSE 0

\* the number of chosen positions directly above pos, up to n
RECURSIVE RunAbove(_, _, _)
RunAbove(ch, i, n) == IF i <= n /\ i \in ch THEN 1 + RunAbove(ch, i + 1, n) ELSE 0

\* mutant: the run above pos is not counted
RunLenBelowOnly(ch, pos, n) == 1 + RunBelow(ch, pos - 1)

\* lines 147-155: run_len around pos, with pos chosen
RunLen(ch, pos, n) == 1 + RunBelow(ch, pos - 1) + RunAbove(ch, pos + 1, n)

\* line 213
MaxConsec(duration) == IF Round(duration) > 1 THEN Round(duration) ELSE 1

\* DataFrame.mean() of a column: the mean of its numbers, NaN when it has none
MeanSkipNa(s) ==
    LET nums == {i \in 1..Len(s) : ~IsNaN(s[i])}
        kept == [i \in 1..Cardinality(nums) |-> s[Ascending(nums)[i]]]
    IN  IF nums = {} THEN NaN ELSE Div(SeqSum(kept), Num(Cardinality(nums), 1))

\* Series.sum() of a column: the sum of its numbers (0 when it has none)
SumSkipNa(s) ==
    LET nums == {i \in 1..Len(s) : ~IsNaN(s[i])}
    IN  SeqSum([i \in 1..Cardinality(nums) |-> s[Ascending(nums)[i]]])

Column(rows, col) == [i \in 1..Len(rows) |-> NumCol(rows[i], col)]


\* an empty summary whose averages are 0
EmptySummaryZeroAverages(rk, mw, perf) ==
    [selected_hours |-> 0,
     capability_credit_usd |-> Num(0, 1),
     performance_credit_usd |-> Num(0, 1),
     total_payment_usd |-> Num(0, 1),
     avg_rmccp |-> Num(0, 1), avg_rmpcp |-> Num(0, 1), avg_mileage_ratio |-> Num(0, 1),
     ranking |-> rk, nameplate_mw |-> mw, performance_score |-> perf]

\* lines 186-202: the summary of an empty selection
EmptySummary(rk, mw, perf) ==
    [selected_hours |-> 0,
     capability_credit_usd |-> Num(0, 1),
     performance_credit_usd |-> Num(0, 1),
     total_payment_usd |-> Num(0, 1),
     avg_rmccp |-> NaN, avg_rmpcp |-> NaN, avg_mileage_ratio |-> NaN,
     ranking |-> rk, nameplate_mw |-> mw, performance_score |-> perf]

\* lines 219-224: the selected rows with their three credits
WithCredits(rows, mw, perf) ==
    [i \in 1..Len(rows) |->
        LET c == HourlyPaymentComponents(rows[i], mw, perf)
        IN  [ts |-> rows[i].ts, rmccp |-> rows[i].rmccp, rmpcp |-> rows[i].rmpcp,
             mileage_ratio |-> rows[i].mileage_ratio,
             capability_credit_usd |-> c.cap,
             performance_credit_usd |-> c.perf,
             total_payment_usd |-> c.total]]

\* mutant: the total of the summary leaves the performance credits out
SummaryTotalOfCapability(rows, rk, mw, perf) ==
    LET comp == [i \in 1..Len(rows) |-> HourlyPaymentComponents(rows[i], mw, perf)]
    IN  [selected_hours |-> Len(rows),
         capability_credit_usd |-> SumSkipNa([i \in 1..Len(rows) |-> comp[i].cap]),
         performance_credit_usd |-> SumSkipNa([i \in 1..Len(rows) |-> comp[i].perf]),
         total_payment_usd |-> SumSkipNa([i \in 1..Len(rows) |-> comp[i].cap]),
         avg_rmccp |-> IF Len(rows) > 0 THEN MeanSkipNa(Column(rows, "rmccp")) ELSE NaN,
         avg_rmpcp |-> IF Len(rows) > 0 THEN MeanSkipNa(Column(rows, "rmpcp")) ELSE NaN,
         avg_mileage_ratio |->
             IF Len(rows) > 0 THEN MeanSkipNa(Column(rows, "mileage_ratio")) ELSE NaN,
         ranking |-> rk, nameplate_mw |-> mw, performance_score |-> perf]

\* lines 227-258: the summary of the selected rows
Summary(rows, rk, mw, perf) ==
    LET comp == [i \in 1..Len(rows) |-> HourlyPaymentComponents(rows[i], mw, perf)]
    IN  [selected_hours |-> Len(rows),
         capability_credit_usd |-> SumSkipNa([i \in 1..Len(rows) |-> comp[i].cap]),
         performance_credit_usd |-> SumSkipNa([i \in 1..Len(rows) |-> comp[i].perf]),
         total_payment_usd |-> SumSkipNa([i \in 1..Len(rows) |-> comp[i].total]),
         avg_rmccp |-> IF Len(rows) > 0 THEN MeanSkipNa(Column(rows, "rmccp")) ELSE NaN,
         avg_rmpcp |-> IF Len(rows) > 0 THEN MeanSkipNa(Column(rows, "rmpcp")) ELSE NaN,
         avg_mileage_ratio |->
             IF Len(rows) > 0 THEN MeanSkipNa(Column(rows, "mileage_ratio")) ELSE NaN,
         ranking |-> rk, nameplate_mw |-> mw, performance_score |-> perf]

\* ------------------------------------------- estimate_reg_revenue_top_n
\* lines 184-203: nothing to select from, or no budget
EmptyReturn ==
    /\ pc = "start"
    /\ hourly_df = <<>> \/ n_hours <= 0
    /\ sel' = <<>>
    /\ summary' = EmptySummary(ranking, nameplate_mw, performance_score)
    /\ pc' = "done"
    /\ UNCHANGED <<stVars, mrgVars, cnvVars, pfVars, getVars, repVars>>
    /\ UNCHANGED <<hourly_df, nameplate_mw, duration_hours, n_hours, ranking,
                   performance_score, df, score, tmp, order, visited, chosen,
                   n_selected, max_consecutive>>

\* lines 205-214 and 117-134: clean the frame, score it, and enter the
\* selector: tmp, the candidate order, an empty mask
Prepare ==
    /\ pc = "start"
    /\ ~(hourly_df = <<>> \/ n_hours <= 0)
    /\ df' = CleanFrame(hourly_df)
    /\ score' = [i \in 1..Len(df') |->
                    RankVector(df'[i], nameplate_mw, performance_score, ranking)]
    /\ max_consecutive' = MaxConsec(duration_hours)
    /\ tmp' = IF df' = <<>> THEN <<>> ELSE PickFrame(df')
    /\ order' \in SortValuesDescending(tmp', score')
    /\ visited' = 0
    /\ chosen' = {}
    /\ n_selected' = 0
    /\ pc' = "pick"
    /\ UNCHANGED <<stVars, mrgVars, cnvVars, pfVars, getVars, repVars>>
    /\ UNCHANGED <<hourly_df, nameplate_mw, duration_hours, n_hours, ranking,
                   performance_score, sel, summary>>

\* mutant: the loop does not stop when the budget is reached
PickStepNoBreak ==
    /\ pc = "pick"
    /\ visited < Len(order)
    /\ LET pos == PosMap(tmp, order[visited + 1])
       IN  IF pos # 0 /\ RunLen(chosen \cup {pos}, pos, Len(tmp)) <= max_consecutive
           THEN /\ chosen' = chosen \cup {pos}
                /\ n_selected' = n_selected + 1
           ELSE UNCHANGED <<chosen, n_selected>>
    /\ visited' = visited + 1
    /\ UNCHANGED <<stVars, mrgVars, cnvVars, pfVars, getVars, repVars>>
    /\ UNCHANGED <<hourly_df, nameplate_mw, duration_hours, n_hours, ranking,
                   performance_score, pc, df, score, tmp, order,
                   max_consecutive, sel, summary>>

\* mutant: the revert of line 158 clears the position before pos
PickStepRevertsNeighbour ==
    /\ pc = "pick"
    /\ visited < Len(order)
    /\ n_selected < n_hours
    /\ LET pos == PosMap(tmp, order[visited + 1])
       IN  IF pos # 0 /\ RunLen(chosen \cup {pos}, pos, Len(tmp)) <= max_consecutive
           THEN /\ chosen' = chosen \cup {pos}
                /\ n_selected' = n_selected + 1
           ELSE /\ chosen' = (chosen \cup {pos}) \ {pos - 1, 0}
                /\ n_selected' = Cardinality(chosen')
    /\ visited' = visited + 1
    /\ UNCHANGED <<stVars, mrgVars, cnvVars, pfVars, getVars, repVars>>
    /\ UNCHANGED <<hourly_df, nameplate_mw, duration_hours, n_hours, ranking,
                   performance_score, pc, df, score, tmp, order,
                   max_consecutive, sel, summary>>

\* lines 136-161: one iteration of the greedy loop on the next candidate
PickStep ==
    /\ pc = "pick"
    /\ visited < Len(order)
    /\ n_selected < n_hours
    /\ LET pos == PosMap(tmp, order[visited + 1])
       IN  IF pos # 0 /\ RunLen(chosen \cup {pos}, pos, Len(tmp)) <= max_consecutive
           THEN /\ chosen' = chosen \cup {pos}
                /\ n_selected' = n_selected + 1
           ELSE UNCHANGED <<chosen, n_selected>>
    /\ visited' = visited + 1
    /\ UNCHANGED <<stVars, mrgVars, cnvVars, pfVars, getVars, repVars>>
    /\ UNCHANGED <<hourly_df, nameplate_mw, duration_hours, n_hours, ranking,
                   performance_score, pc, df, score, tmp, order,
                   max_consecutive, sel, summary>>

\* lines 163-165: the index labels of the chosen positions
SelectedIndex(t, ch) == [i \in 1..Cardinality(ch) |-> t[Ascending(ch)[i]].index]

\* lines 216-260: the loop is over (budget reached or candidates exhausted);
\* the selected rows in time order, their credits, the summary
PickReturn ==
    /\ pc = "pick"
    /\ visited >= Len(order) \/ n_selected >= n_hours
    /\ LET sel_idx == SelectedIndex(tmp, chosen)
           rows == SortUnique([i \in 1..Len(sel_idx) |-> df[sel_idx[i]]])
       IN  /\ sel' = WithCredits(rows, nameplate_mw, performance_score)
           /\ summary' = Summary(rows, ranking, nameplate_mw, performance_score)
    /\ pc' = "done"
    /\ UNCHANGED <<stVars, mrgVars, cnvVars, pfVars, getVars, repVars>>
    /\ UNCHANGED <<hourly_df, nameplate_mw, duration_hours, n_hours, ranking,
                   performance_score, df, score, tmp, order, visited, chosen,
                   n_selected, max_consecutive>>

NextEst == EmptyReturn \/ Prepare \/ PickStep \/ PickReturn

\* lines 183-214: after the call has returned, the function is called again
\* with the same series, ranking and duration and a budget larger by one.
\* Lines 205-210 and 121-130 compute df, score, tmp and order from the same
\* values as before, and the sort of the same scores gives the same order
EstAgain ==
    /\ pc = "done"
    /\ ~first_sel.done
    /\ first_sel' = [done |-> TRUE, rows |-> sel]
    /\ n_hours' = n_hours + 1
    /\ pc' = IF hourly_df = <<>> \/ n_hours <= 0 THEN "start" ELSE "pick"
    /\ visited' = 0
    /\ chosen' = {}
    /\ n_selected' = 0
    /\ UNCHANGED <<hourly_df, nameplate_mw, duration_hours, ranking,
                   performance_score, df, score, tmp, order, max_consecutive,
                   sel, summary>>
    /\ UNCHANGED <<stVars, mrgVars, cnvVars, pfVars, getVars>>
    /\ UNCHANGED <<calls, first_cache, first_out, first_report, client, first_after>>

NextGrow == EmptyReturn \/ Prepare \/ PickStep \/ PickReturn \/ EstAgain

\* the estimator before a call with the given arguments
InitEst(h, mw, dur, n, rk, perf) ==
    /\ hourly_df = h
    /\ nameplate_mw = mw
    /\ duration_hours = dur
    /\ n_hours = n
    /\ ranking = rk
    /\ performance_score = perf
    /\ pc = "start"
    /\ df = <<>>
    /\ score = <<>>
    /\ tmp = <<>>
    /\ order = <<>>
    /\ visited = 0
    /\ chosen = {}
    /\ n_selected = 0
    /\ max_consecutive = 0
    /\ sel = <<>>
    /\ summary = EmptySummary(rk, mw, perf)

\* ------------------------------------------------------ budget converter
\* Python's max(a, b) on floats: b when b > a, else a
MaxNum(a, b) == IF Less(a, b) THEN b ELSE a

MaxInt(a, b) == IF b > a THEN b ELSE a
MinInt(a, b) == IF b < a THEN b ELSE a

\* line 41: the smallest throughput ratio divided by (1e-6)
Epsilon == Num(1, 1000000)

\* lines 41-45 without the clamp to window_hours
ComputeNHoursUnclamped(duration, cycles, tr, window) ==
    LET t == MaxNum(tr, Epsilon)
        raw_hours == Mul(Div(duration, t), Int2Num(MaxInt(cycles, 0)))
    IN  MaxInt(0, Floor(raw_hours))

\* lines 41-45: compute_n_hours_from_cycles
ComputeNHoursFromCycles(duration, cycles, tr, window) ==
    LET t == MaxNum(tr, Epsilon)
        raw_hours == Mul(Div(duration, t), Int2Num(MaxInt(cycles, 0)))
        hours == Floor(raw_hours)
    IN  MaxInt(0, MinInt(hours, MaxInt(window, 0)))

\* lines 24-45: the budget is computed and handed to the estimator
ComputeNHours ==
    /\ pc = "budget"
    /\ n_hours' = ComputeNHoursFromCycles(duration_hours, annual_cycles,
                                          throughput_ratio_mwh_per_hour, window_hours)
    /\ pc' = "start"
    /\ UNCHANGED <<hourly_df, nameplate_mw, duration_hours, ranking,
                   performance_score, df, score, tmp, order, visited, chosen,
                   n_selected, max_consecutive, sel, summary>>
    /\ UNCHANGED <<stVars, mrgVars, cnvVars, pfVars, getVars, repVars>>

NextBudget == ComputeNHours \/ EmptyReturn \/ Prepare \/ PickStep \/ PickReturn

\* the converter is not called
ConverterIdle ==
    /\ annual_cycles = 0
    /\ throughput_ratio_mwh_per_hour = Num(1, 1)
    /\ window_hours = 0

\* ------------------------------------------------- selector: the inputs
HourRow(t, c, p, m) == [ts |-> t, rmccp |-> c, rmpcp |-> p, mileage_ratio |-> m]

\* rows of the hours 0..MaxHour with a capability price of 1 or 2
SelRows == {HourRow(t, c, Num(1, 1), Num(1, 1)) : t \in 0..MaxHour, c \in {Num(1, 1), Num(2, 1)}}

\* a row whose timestamp cell is no date
BadTsRow == HourRow(Garbage, Num(2, 1), Num(1, 1), Num(1, 1))

\* sequences of up to n rows of S, no row twice (a repeated identical row is
\* dropped as a duplicate and changes nothing)
DistinctSeqs(S, n) == {h \in SeqsUpTo(S, n) : \A i, j \in 1..Len(h) : i # j => h[i] # h[j]}

\* the input series: up to MaxRows rows in any order, the same hour possibly
\* more than once, and possibly one row without a valid timestamp
SelSeries ==
    DistinctSeqs(SelRows, MaxRows)
    \cup {<<BadTsRow>> \o h : h \in DistinctSeqs(SelRows, MaxRows - 1)}
    \cup {h \o <<BadTsRow>> : h \in DistinctSeqs(SelRows, MaxRows - 1)}

\* duration_hours: 0.5 (rounds to 0, coerced to 1) and 2.5 (rounds to 2)
SelDurations == {Num(1, 2), Num(5, 2)}

\* Scenario A of the specification: a gap-free series of 48 hours, every
\* score 10, a duration of 3 hours, a budget of 6 hours
ScenarioASeries == [i \in 1..48 |-> HourRow(i - 1, Num(10, 1), Num(1, 1), Num(1, 1))]

IsScenarioA == hourly_df = ScenarioASeries /\ duration_hours = Num(3, 1) /\ n_hours = 6

InitSel ==
    \/ \E h \in SelSeries, dur \in SelDurations, n \in 1..MaxBudget :
          InitEst(h, Num(2, 1), dur, n, "rmccp", Num(9, 10))
    \/ InitEst(ScenarioASeries, Num(2, 1), Num(3, 1), 6, "rmccp", Num(9, 10))

\* the series of the repeated calls: rows in time order, the same hour
\* possibly more than once
GrowSeries ==
    {h \in DistinctSeqs(SelRows, MaxRows) :
        \A i, j \in 1..Len(h) : i < j => h[i].ts <= h[j].ts}

\* the first of two calls of the estimator, the budget from 0 on
InitGrow ==
    \E h \in GrowSeries, dur \in SelDurations, n \in 0..MaxBudget,
       rk \in {"rmccp", "full"} :
        InitEst(h, Num(2, 1), dur, n, rk, Num(9, 10))

\* --------------------------------------------- payments: the inputs
\* (rmccp, rmpcp, mileage_ratio) of a row: Scenario D's prices; a missing
\* capability price and ratio; a performance price cell that is no number
PayCells == {<<Num(10, 1), Num(5, 1), Num(2, 1)>>,
             <<NaN, Num(5, 1), NaN>>,
             <<Num(-3, 1), Num(2, 1), Num(1, 1)>>,
             <<Num(1, 1), Str, Num(1, 2)>>}

PayRows == {HourRow(t, c[1], c[2], c[3]) : t \in 0..1, c \in PayCells}

\* up to MaxPayRows rows, or a single row whose timestamp is no date
PaySeries == DistinctSeqs(PayRows, MaxPayRows) \cup {<<BadTsRow>>}

\* the performance scores and the asset powers the calls are made with
PerfScores == {Num(0, 1), Num(9, 10), Num(1, 1)}
AssetPowers == {Num(1, 1), Num(2, 1)}

\* duration_hours: one hour, or two hours in a row
PayDurations == {Num(1, 1), Num(2, 1)}

InitPay ==
    \E h \in PaySeries, mw \in AssetPowers, perf \in PerfScores, dur \in PayDurations,
       rk \in {"full", "rmccp", "rmpcp"}, n \in (-1)..MaxPayRows :
        InitEst(h, mw, dur, n, rk, perf)

\* ------------------------------------------------------ cache: the months
\* a month is [year, month]; a datetime is [year, month, hour], hour being
\* the hours since the month began

\* lines 29-31: _next_month
NextMonth(k) ==
    IF k.month = 12 THEN [year |-> k.year + 1, month |-> 1]
    ELSE [year |-> k.year, month |-> k.month + 1]

MonthOf(dt) == [year |-> dt.year, month |-> dt.month]

\* cur < stop on month starts
MonthBefore(a, b) == a.year < b.year \/ (a.year = b.year /\ a.month < b.month)

\* lines 47-49: the loop of months_in_window
RECURSIVE MonthsFrom(_, _)
MonthsFrom(cur, stop) ==
    IF MonthBefore(cur, stop) THEN <<cur>> \o MonthsFrom(NextMonth(cur), stop)
    ELSE <<>>

\* lines 40-49: months_in_window
MonthsInWindow(s, e) == MonthsFrom(MonthOf(s), MonthOf(e))

\* the first month of the modelled calendar; the calendar runs over a
\* year end
Epoch == [year |-> 2023, month |-> 11]

RECURSIVE MonthsAfter(_, _)
MonthsAfter(k, n) == IF n = 0 THEN <<>> ELSE <<k>> \o MonthsAfter(NextMonth(k), n - 1)

\* the months of the modelled calendar, and the month after the last
CalendarSeq == MonthsAfter(Epoch, NMonths + 1)
ModelMonths == {CalendarSeq[i] : i \in 1..NMonths}

\* the timestamp (in whole hours since the Epoch) of hour h of month k
MonthIndex(k) == (k.year - Epoch.year) * 12 + (k.month - Epoch.month)
HourOf(k, h) == MonthIndex(k) * HoursPerMonth + h

\* the month an hour lies in
MonthOfHour(t) == CalendarSeq[(t \div HoursPerMonth) + 1]

\* ------------------------------------------------------ cache: the frames
\* a frame is [tscol, cols, rows]: the name of its timestamp column, the
\* names of its other columns, its rows; a client request gives a frame or
\* raises
Ept == "datetime_beginning_ept"
Frame(tc, cs, rs) == [kind |-> "frame", tscol |-> tc, cols |-> cs, rows |-> rs]
EmptyFrame == Frame("", {}, <<>>)
Raises == [kind |-> "raise", tscol |-> "", cols |-> {}, rows |-> <<>>]

\* lines 92, 100: the column aliases, in the order they are looked for
RegAAliases == <<"rega_hourly", "reg_a_hourly", "rega_mileage">>
RegDAliases == <<"regd_hourly", "reg_d_hourly", "regd_mileage">>

\* lines 94, 102: [c for c in aliases if c in mkt.columns] ... .iloc[:, 0]
FirstAlias(aliases, cols) ==
    aliases[CHOOSE i \in 1..Len(aliases) :
                /\ aliases[i] \in cols
                /\ \A j \in 1..(i - 1) : aliases[j] \notin cols]

\* Series.replace(0, np.nan)
ReplaceZero(x) == IF IsNum(x) /\ x.n = 0 THEN NaN ELSE x

\* Series.replace([np.inf, -np.inf], np.nan)
ReplaceInf(x) == IF x.k = "inf" THEN NaN ELSE x

\* lines 92-98: the RegA mileage of a market row
RegA(cols, row) ==
    IF \E i \in 1..Len(RegAAliases) : RegAAliases[i] \in cols
    THEN ReplaceZero(ToNumeric(row.cells[FirstAlias(RegAAliases, cols)]))
    ELSE NaN

\* lines 100-106: the RegD mileage of a market row
RegD(cols, row) ==
    IF \E i \in 1..Len(RegDAliases) : RegDAliases[i] \in cols
    THEN ToNumeric(row.cells[FirstAlias(RegDAliases, cols)])
    ELSE NaN

\* line 108: mkt["mileage_ratio"]
MarketRatio(cols, row) == FillNa(ReplaceInf(Div(RegD(cols, row), RegA(cols, row))), Num(1, 1))

\* lines 108-111: the ratios of the market rows of hour t (an empty
\* sequence when the hour has no market row)
RECURSIVE RatiosAt(_, _, _)
RatiosAt(mkt, rs, t) ==
    IF rs = <<>> THEN <<>>
    ELSE IF ToDatetime(Head(rs).ts) = t
         THEN <<MarketRatio(mkt.cols, Head(rs))>> \o RatiosAt(mkt, Tail(rs), t)
         ELSE RatiosAt(mkt, Tail(rs), t)

\* lines 109-115: groupby(...).mean() and the left merge: the ratio a price
\* row of hour t gets (NaN when no market row has that hour)
JoinedRatio(mkt, t) ==
    LET rs == RatiosAt(mkt, mkt.rows, t)
    IN  IF t = NaT \/ rs = <<>> THEN NaN
        ELSE Div(SeqSum(rs), Num(Len(rs), 1))

\* the rows of s ascending, rows of the same hour in their order in s
RECURSIVE StableAscending(_)
StableAscending(s) ==
    IF s = <<>> THEN <<>>
    ELSE InsertByTs(s[Len(s)], StableAscending(SubSeq(s, 1, Len(s) - 1)))

\* line 122: DataFrame.sort_values("datetime_beginning_ept"), the default
\* kind="quicksort" is not stable: every ascending arrangement of the rows
SortValuesTs(s) ==
    LET st == StableAscending(s)
        n == Len(st)
    IN  {[i \in 1..n |-> st[p[i]]] : p \in {q \in Arrangements(n) :
            \A i \in 1..(n - 1) : st[q[i]].ts <= st[q[i + 1]].ts}}

\* lines 83-122: _merge_and_compute_ratio; ok is FALSE when it raises
\* KeyError (a frame without a datetime_beginning_ept column), frames are
\* the results the final sort can give
MergeAndComputeRatio(prices, mkt) ==
    IF prices.tscol # Ept THEN [ok |-> FALSE, frames |-> {}]
    ELSE IF mkt.rows # <<>> /\ mkt.tscol # Ept THEN [ok |-> FALSE, frames |-> {}]
    ELSE LET ratio(t) == IF mkt.rows # <<>> THEN JoinedRatio(mkt, t) ELSE Num(1, 1)
             joined == [i \in 1..Len(prices.rows) |->
                          LET r == prices.rows[i]
                              t == ToDatetime(r.ts)
                          IN  HourRow(t, ToNumeric(r.rmccp), ToNumeric(r.rmpcp),
                                      ToNumeric(ratio(t)))]
         IN  [ok |-> TRUE, frames |-> SortValuesTs(DropNaT(joined))]

\* --------------------------------------------------- cache: the partitions
\* a parquet file of the cache: absent, unreadable, or holding a frame
Absent == [state |-> "absent", frame |-> EmptyFrame]
Unreadable == [state |-> "corrupt", frame |-> EmptyFrame]
Stored(f) == [state |-> "ok", frame |-> f]

CombinedCols == {"rmccp", "rmpcp", "mileage_ratio"}

\* lines 162-169: load_cached_month (None when the file is absent or
\* cannot be read)
LoadCachedMonth(fs, k) ==
    IF fs[k].state = "ok" THEN [some |-> TRUE, rows |-> fs[k].frame.rows]
    ELSE [some |-> FALSE, rows |-> <<>>]

\* pd.concat(parts, ignore_index=True)
RECURSIVE Concat(_)
Concat(ps) == IF ps = <<>> THEN <<>> ELSE Head(ps) \o Concat(Tail(ps))

\* lines 255-261: the returned series
StitchedSeries(ps) == IF ps = <<>> THEN <<>> ELSE SortUnique(DropDuplicates(Concat(ps)))

\* lines 241-253: an entry of the report (the paths are fixed by year and
\* month and left out)
ReportEntry(k, a, n, e) ==
    [year |-> k.year, month |-> k.month, action |-> a, rows |-> n, error |-> e]

\* lines 238-239: the frame joins parts unless it is None or empty
WithPart(ps, rows) == IF rows = <<>> THEN ps ELSE Append(ps, rows)

\* ------------------------------------------------ cache: the client feeds
PriceRow(t, c, p) == [ts |-> t, rmccp |-> c, rmpcp |-> p]
MarketRow(t, cs) == [ts |-> t, cells |-> cs]

\* what reg_zone_prelim_bill may answer for month k: it raises; no rows;
\* the month's hours under the column name PJMClient gives them ("ts");
\* the month's hours under datetime_beginning_ept, latest hour first
PriceFeeds(k) ==
    LET b == HourOf(k, 0)
        l == HourOf(k, HoursPerMonth - 1)
    IN  {Raises, EmptyFrame,
         Frame("ts", {"rmccp", "rmpcp"},
               <<PriceRow(b, Num(1, 1), Num(1, 1)), PriceRow(l, Num(2, 1), Num(1, 1))>>),
         Frame(Ept, {"rmccp", "rmpcp"},
               <<PriceRow(l, Num(2, 1), Num(1, 1)), PriceRow(b, Num(1, 1), Num(1, 1))>>)}

\* the cells of a market row with RegA columns rega_mileage (a2) and
\* rega_hourly (a1) and RegD column regd_mileage (d)
MileageCells(a2, a1, d) ==
    [c \in {"rega_mileage", "rega_hourly", "regd_mileage"} |->
        IF c = "rega_mileage" THEN a2 ELSE IF c = "rega_hourly" THEN a1 ELSE d]

\* what reg_market_results may answer for month k: it raises; no rows; the
\* first hour under the column name PJMClient gives it ("ts"); the first
\* hour with no mileage column; the first hour three times (RegD/RegA 4/2,
\* 1/1 and 1/0) and the last hour with RegD 0
MarketFeeds(k) ==
    LET b == HourOf(k, 0)
        l == HourOf(k, HoursPerMonth - 1)
    IN  {Raises, EmptyFrame,
         Frame("ts", {"rega_hourly", "regd_hourly"},
               <<MarketRow(b, [c \in {"rega_hourly", "regd_hourly"} |-> Num(2, 1)])>>),
         Frame(Ept, {"mcp"}, <<MarketRow(b, [c \in {"mcp"} |-> Num(7, 1)])>>),
         Frame(Ept, {"rega_mileage", "rega_hourly", "regd_mileage"},
               <<MarketRow(b, MileageCells(Str, Num(2, 1), Num(4, 1))),
                 MarketRow(b, MileageCells(Num(5, 1), Num(1, 1), Num(1, 1))),
                 MarketRow(b, MileageCells(Num(5, 1), Num(0, 1), Num(1, 1))),
                 MarketRow(l, MileageCells(Num(5, 1), Num(1, 1), Num(0, 1)))>>)}

\* a client that may give any of the answers to the requests for a month
AnyClient == [k \in ModelMonths |-> [prices |-> PriceFeeds(k), market |-> MarketFeeds(k)]]

\* ------------------------------------- load_or_fetch_window_report: steps
\* the month is fetched whenever a client is given
FetchAllowedWithClient == has_client

\* line 229: fetch_missing and client is not None
FetchAllowed == fetch_missing /\ has_client

\* lines 223-229, 237-253: a month whose combined partition can be read
StitchLoaded ==
    /\ spc = "loop"
    /\ mi <= Len(months)
    /\ LET k == months[mi]
           cached == LoadCachedMonth(combined_fs, k)
       IN  /\ cached.some
           /\ parts' = WithPart(parts, cached.rows)
           /\ report' = Append(report, ReportEntry(k, "loaded", Len(cached.rows), "None"))
    /\ mi' = mi + 1
    /\ UNCHANGED <<estVars, mrgVars, cnvVars, pfVars, getVars, repVars>>
    /\ UNCHANGED <<prices_fs, market_fs, combined_fs, start, end, fetch_missing,
                   has_client, spc, months, out, raised, client_calls>>

\* lines 223-229, 237-253: a month with no readable partition when nothing
\* is fetched
StitchMissing ==
    /\ spc = "loop"
    /\ mi <= Len(months)
    /\ ~LoadCachedMonth(combined_fs, months[mi]).some
    /\ ~FetchAllowed
    /\ report' = Append(report, ReportEntry(months[mi], "missing", 0, "None"))
    /\ mi' = mi + 1
    /\ UNCHANGED <<estVars, mrgVars, cnvVars, pfVars, getVars, repVars>>
    /\ UNCHANGED <<prices_fs, market_fs, combined_fs, start, end, fetch_missing,
                   has_client, spc, months, parts, out, raised, client_calls>>

\* the exception of fetch_and_cache_month leaves the call
AfterRaiseUncaught(at) == "raised"

\* lines 230-235: the exception of fetch_and_cache_month is caught (except
\* Exception), the loop goes on
AfterRaise(at) == at

\* lines 134-144: a client request inside try/except: a raise gives an
\* empty frame
Guarded(answer) == IF answer.kind = "raise" THEN EmptyFrame ELSE answer

\* mutant: the combined frame is returned and not written
FetchAndCacheMonthUnsaved(k, pr, mk, pf, mf, cf) ==
    LET prices == Guarded(pr)
        market == Guarded(mk)
        merged == MergeAndComputeRatio(prices, market)
        pf2 == [pf EXCEPT ![k] = Stored(prices)]
        mf2 == IF market.rows # <<>> THEN [mf EXCEPT ![k] = Stored(market)] ELSE mf
    IN  IF prices.rows = <<>>
        THEN {[res |-> "none", rows |-> <<>>, cache |-> <<pf, mf, cf>>]}
        ELSE IF ~merged.ok
        THEN {[res |-> "raise", rows |-> <<>>, cache |-> <<pf2, mf2, cf>>]}
        ELSE {[res |-> "frame", rows |-> c, cache |-> <<pf2, mf2, cf>>] :
                 c \in merged.frames}

\* lines 127-159: fetch_and_cache_month for month k on the cache directory
\* <<pf, mf, cf>>, pr and mk being the client's answers: what it can return
\* (None, an exception, or the combined frame) and the directory it leaves
FetchAndCacheMonth(k, pr, mk, pf, mf, cf) ==
    LET prices == Guarded(pr)
        market == Guarded(mk)
        merged == MergeAndComputeRatio(prices, market)
        pf2 == [pf EXCEPT ![k] = Stored(prices)]
        mf2 == IF market.rows # <<>> THEN [mf EXCEPT ![k] = Stored(market)] ELSE mf
    IN  IF prices.rows = <<>>
        THEN \* line 146: return None
             {[res |-> "none", rows |-> <<>>, cache |-> <<pf, mf, cf>>]}
        ELSE IF ~merged.ok
        THEN \* the merge raises KeyError
             {[res |-> "raise", rows |-> <<>>, cache |-> <<pf2, mf2, cf>>]}
        ELSE {[res |-> "frame", rows |-> c,
               cache |-> <<pf2, mf2,
                           [cf EXCEPT ![k] = Stored(Frame(Ept, CombinedCols, c))]>>] :
                 c \in merged.frames}

\* lines 223-253 with 127-159: a month with no readable partition is
\* fetched; pr and mk are the client's answers
StitchFetch ==
    /\ spc = "loop"
    /\ mi <= Len(months)
    /\ ~LoadCachedMonth(combined_fs, months[mi]).some
    /\ FetchAllowed
    /\ client_calls' = client_calls \o <<months[mi], months[mi]>>
    /\ \E pr \in client[months[mi]].prices, mk \in client[months[mi]].market :
        \E o \in FetchAndCacheMonth(months[mi], pr, mk, prices_fs, market_fs, combined_fs) :
        LET k == months[mi]
        IN  /\ raised' = IF pr.kind = "raise" THEN raised \cup {k} ELSE raised
            /\ prices_fs' = o.cache[1]
            /\ market_fs' = o.cache[2]
            /\ combined_fs' = o.cache[3]
            /\ spc' = IF o.res = "raise" THEN AfterRaise(spc) ELSE spc
            /\ parts' = IF o.res = "frame" THEN WithPart(parts, o.rows) ELSE parts
            /\ report' =
                 IF o.res = "none"
                 THEN Append(report, ReportEntry(k, "missing", 0, "None"))
                 ELSE IF o.res = "frame"
                 THEN Append(report, ReportEntry(k, "fetched", Len(o.rows), "None"))
                 ELSE IF spc' = "loop"
                 THEN Append(report, ReportEntry(k, "error", 0, "'datetime_beginning_ept'"))
                 ELSE report
    /\ mi' = mi + 1
    /\ UNCHANGED <<estVars, mrgVars, cnvVars, pfVars, getVars, repVars>>
    /\ UNCHANGED <<start, end, fetch_missing, has_client, months, out>>

\* lines 255-261: after the last month
StitchReturn ==
    /\ spc = "loop"
    /\ mi > Len(months)
    /\ out' = StitchedSeries(parts)
    /\ spc' = "done"
    /\ UNCHANGED <<estVars, mrgVars, cnvVars, pfVars, getVars, repVars>>
    /\ UNCHANGED <<prices_fs, market_fs, combined_fs, start, end, fetch_missing,
                   has_client, months, mi, parts, report, raised,
                   client_calls>>

NextStitch == StitchLoaded \/ StitchMissing \/ StitchFetch \/ StitchReturn

\* load_or_fetch_window_report is entered with the given cache and
\* arguments (lines 219-221)
InitStitch(pf, mf, cf, s, e, fm, hc, cl) ==
    /\ prices_fs = pf
    /\ market_fs = mf
    /\ combined_fs = cf
    /\ start = s
    /\ end = e
    /\ fetch_missing = fm
    /\ has_client = hc
    /\ spc = "loop"
    /\ months = MonthsInWindow(s, e)
    /\ mi = 1
    /\ parts = <<>>
    /\ report = <<>>
    /\ out = <<>>
    /\ raised = {}
    /\ client_calls = <<>>
    /\ calls = 1
    /\ first_cache = <<pf, mf, cf>>
    /\ first_out = <<>>
    /\ first_report = <<>>
    /\ client = cl
    /\ first_after = <<pf, mf, cf>>
    /\ first_sel = [done |-> FALSE, rows |-> <<>>]

\* no stitch is under way
StitchIdle ==
    /\ prices_fs = [k \in ModelMonths |-> Absent]
    /\ market_fs = [k \in ModelMonths |-> Absent]
    /\ combined_fs = [k \in ModelMonths |-> Absent]
    /\ start = [year |-> Epoch.year, month |-> Epoch.month, hour |-> 0]
    /\ end = start
    /\ fetch_missing = FALSE
    /\ has_client = FALSE
    /\ spc = "done"
    /\ months = <<>>
    /\ mi = 1
    /\ parts = <<>>
    /\ report = <<>>
    /\ out = <<>>
    /\ raised = {}
    /\ client_calls = <<>>
    /\ calls = 0
    /\ first_cache = <<prices_fs, market_fs, combined_fs>>
    /\ first_out = <<>>
    /\ first_report = <<>>
    /\ client = AnyClient
    /\ first_after = first_cache
    /\ first_sel = [done |-> FALSE, rows |-> <<>>]

\* a second call that starts with the parts and report of the first
StitchAgainStale ==
    /\ spc = "done"
    /\ calls = 1
    /\ calls' = 2
    /\ first_out' = out
    /\ first_report' = report
    /\ \E fm \in BOOLEAN, hc \in BOOLEAN : fetch_missing' = fm /\ has_client' = hc
    /\ spc' = "loop"
    /\ months' = MonthsInWindow(start, end)
    /\ mi' = 1
    /\ parts' = parts
    /\ report' = report
    /\ out' = <<>>
    /\ raised' = {}
    /\ client_calls' = <<>>
    /\ first_after' = <<prices_fs, market_fs, combined_fs>>
    /\ UNCHANGED <<prices_fs, market_fs, combined_fs, start, end, first_cache,
                   client, first_sel>>
    /\ UNCHANGED <<estVars, mrgVars, cnvVars, pfVars, getVars>>

\* lines 203-221: after the first call has returned, the function is called
\* again with the same window (fetch_missing and the client may differ)
StitchAgain ==
    /\ spc = "done"
    /\ calls = 1
    /\ calls' = 2
    /\ first_out' = out
    /\ first_report' = report
    /\ \E fm \in BOOLEAN, hc \in BOOLEAN : fetch_missing' = fm /\ has_client' = hc
    /\ spc' = "loop"
    /\ months' = MonthsInWindow(start, end)
    /\ mi' = 1
    /\ parts' = <<>>
    /\ report' = <<>>
    /\ out' = <<>>
    /\ raised' = {}
    /\ client_calls' = <<>>
    /\ first_after' = <<prices_fs, market_fs, combined_fs>>
    /\ UNCHANGED <<prices_fs, market_fs, combined_fs, start, end, first_cache,
                   client, first_sel>>
    /\ UNCHANGED <<estVars, mrgVars, cnvVars, pfVars, getVars>>

NextRepeat == StitchLoaded \/ StitchMissing \/ StitchFetch \/ StitchReturn \/ StitchAgain

\* ------------------------------------------------- load_or_fetch_window
\* lines 174-185: after load_or_fetch_window_report has returned, the legacy
\* load_or_fetch_window is called with the same arguments and the same
\* client on a copy of the cache directory as it was before that call
LegacyStart ==
    /\ spc = "done"
    /\ calls = 1
    /\ calls' = 2
    /\ first_out' = out
    /\ first_report' = report
    /\ first_after' = <<prices_fs, market_fs, combined_fs>>
    /\ prices_fs' = first_cache[1]
    /\ market_fs' = first_cache[2]
    /\ combined_fs' = first_cache[3]
    /\ spc' = "legacy"
    /\ months' = MonthsInWindow(start, end)
    /\ mi' = 1
    /\ parts' = <<>>
    /\ report' = <<>>
    /\ out' = <<>>
    /\ raised' = {}
    /\ client_calls' = <<>>
    /\ UNCHANGED <<start, end, fetch_missing, has_client, first_cache, client,
                   first_sel>>
    /\ UNCHANGED <<estVars, mrgVars, cnvVars, pfVars, getVars>>

\* lines 186-191: a month whose combined partition can be read
LegacyLoaded ==
    /\ spc = "legacy"
    /\ mi <= Len(months)
    /\ LET cached == LoadCachedMonth(combined_fs, months[mi])
       IN  /\ cached.some
           /\ parts' = WithPart(parts, cached.rows)
    /\ mi' = mi + 1
    /\ UNCHANGED <<estVars, mrgVars, cnvVars, pfVars, getVars, repVars>>
    /\ UNCHANGED <<prices_fs, market_fs, combined_fs, start, end, fetch_missing,
                   has_client, spc, months, report, out, raised, client_calls>>

\* lines 186-191: a month with no readable partition when nothing is fetched
LegacySkipped ==
    /\ spc = "legacy"
    /\ mi <= Len(months)
    /\ ~LoadCachedMonth(combined_fs, months[mi]).some
    /\ ~FetchAllowed
    /\ mi' = mi + 1
    /\ UNCHANGED <<estVars, mrgVars, cnvVars, pfVars, getVars, repVars>>
    /\ UNCHANGED <<prices_fs, market_fs, combined_fs, start, end, fetch_missing,
                   has_client, spc, months, parts, report, out, raised,
                   client_calls>>

\* lines 186-191 with 127-159: a month with no readable partition is
\* fetched; an exception of fetch_and_cache_month leaves the function
LegacyFetch ==
    /\ spc = "legacy"
    /\ mi <= Len(months)
    /\ ~LoadCachedMonth(combined_fs, months[mi]).some
    /\ FetchAllowed
    /\ client_calls' = client_calls \o <<months[mi], months[mi]>>
    /\ \E pr \in client[months[mi]].prices, mk \in client[months[mi]].market :
        \E o \in FetchAndCacheMonth(months[mi], pr, mk, prices_fs, market_fs, combined_fs) :
            /\ raised' = IF pr.kind = "raise" THEN raised \cup {months[mi]} ELSE raised
            /\ prices_fs' = o.cache[1]
            /\ market_fs' = o.cache[2]
            /\ combined_fs' = o.cache[3]
            /\ spc' = IF o.res = "raise" THEN "raised" ELSE spc
            /\ parts' = IF o.res = "frame" THEN WithPart(parts, o.rows) ELSE parts
    /\ mi' = mi + 1
    /\ UNCHANGED <<estVars, mrgVars, cnvVars, pfVars, getVars, repVars>>
    /\ UNCHANGED <<start, end, fetch_missing, has_client, months, report, out>>

\* lines 193-200: after the last month
LegacyReturn ==
    /\ spc = "legacy"
    /\ mi > Len(months)
    /\ out' = StitchedSeries(parts)
    /\ spc' = "legacy_done"
    /\ UNCHANGED <<estVars, mrgVars, cnvVars, pfVars, getVars, repVars>>
    /\ UNCHANGED <<prices_fs, market_fs, combined_fs, start, end, fetch_missing,
                   has_client, months, mi, parts, report, raised,
                   client_calls>>

NextLegacy ==
    \/ StitchLoaded \/ StitchMissing \/ StitchFetch \/ StitchReturn
    \/ LegacyStart \/ LegacyLoaded \/ LegacySkipped \/ LegacyFetch \/ LegacyReturn

\* -------------------------------------------------- stitcher: the inputs
\* the feeds a well-formed cached month was fetched from
CachedPrices(k) ==
    Frame(Ept, {"rmccp", "rmpcp"},
          <<PriceRow(HourOf(k, 0), Num(1, 1), Num(1, 1)),
            PriceRow(HourOf(k, HoursPerMonth - 1), Num(2, 1), Num(1, 1))>>)

CachedMarket(k) ==
    Frame(Ept, {"rega_hourly", "regd_hourly"},
          <<MarketRow(HourOf(k, 0), [c \in {"rega_hourly", "regd_hourly"} |-> Num(2, 1)]),
            MarketRow(HourOf(k, HoursPerMonth - 1), [c \in {"rega_hourly", "regd_hourly"} |-> Num(2, 1)])>>)

CachedCombined(k) ==
    Frame(Ept, CombinedCols,
          CHOOSE c \in MergeAndComputeRatio(CachedPrices(k), CachedMarket(k)).frames : TRUE)

\* the price feed a cached month with repeated hours was fetched from: the
\* first hour of the next month, and the month's first hour twice (the
\* repeated hour of a clock change) with different prices; no market feed
OverlapPrices(k) ==
    Frame(Ept, {"rmccp", "rmpcp"},
          <<PriceRow(HourOf(NextMonth(k), 0), Num(9, 1), Num(1, 1)),
            PriceRow(HourOf(k, 0), Num(3, 1), Num(1, 1)),
            PriceRow(HourOf(k, HoursPerMonth - 1), Num(2, 1), Num(1, 1)),
            PriceRow(HourOf(k, 0), Num(1, 1), Num(1, 1))>>)

OverlapCombined(k) ==
    Frame(Ept, CombinedCols,
          CHOOSE c \in MergeAndComputeRatio(OverlapPrices(k), EmptyFrame).frames : TRUE)

\* the cache directory before the call: each month cached, cached with
\* repeated hours, not cached, or with a combined partition that cannot be
\* read
CacheStates == [ModelMonths -> {"absent", "corrupt", "ok", "dup"}]

PricesOf(cs) ==
    [k \in ModelMonths |-> IF cs[k] = "absent" THEN Absent
                           ELSE IF cs[k] = "dup" THEN Stored(OverlapPrices(k))
                           ELSE Stored(CachedPrices(k))]
MarketOf(cs) ==
    [k \in ModelMonths |-> IF cs[k] \in {"absent", "dup"} THEN Absent
                           ELSE Stored(CachedMarket(k))]
CombinedOf(cs) ==
    [k \in ModelMonths |-> IF cs[k] = "absent" THEN Absent
                           ELSE IF cs[k] = "corrupt" THEN Unreadable
                           ELSE IF cs[k] = "dup" THEN Stored(OverlapCombined(k))
                           ELSE Stored(CachedCombined(k))]

\* the instants a window may start or end at: the first or the second hour
\* of a month of the calendar, or of the month after it
Datetimes == {[year |-> CalendarSeq[i].year, month |-> CalendarSeq[i].month, hour |-> h] :
                 i \in 1..(NMonths + 1), h \in {0, 1}}

\* start <= end
NotAfter(s, e) == MonthBefore(MonthOf(s), MonthOf(e)) \/ (MonthOf(s) = MonthOf(e) /\ s.hour <= e.hour)

\* the windows [start, end): from the first hour of a month to the first
\* hour of a month, or from the second hour of a month to the second hour
\* of the same, the next or the month after the next
Windows ==
    {w \in Datetimes \X Datetimes :
        /\ NotAfter(w[1], w[2])
        /\ w[1].hour = w[2].hour
        /\ w[1].hour = 1 => Len(MonthsInWindow(w[1], w[2])) <= 2}

\* the cache directories a call for the months ms starts with: a month
\* outside the window is cached or not cached
CachesFor(ms) ==
    {cs \in CacheStates : \A k \in ModelMonths : k \notin Range(ms) => cs[k] \in {"absent", "ok"}}

InitWindow ==
    \E w \in Windows, fm \in BOOLEAN, hc \in BOOLEAN :
        \E cs \in CachesFor(MonthsInWindow(w[1], w[2])) :
            InitStitch(PricesOf(cs), MarketOf(cs), CombinedOf(cs), w[1], w[2], fm, hc,
                       AnyClient)

\* ------------------------------------------ _merge_and_compute_ratio alone
\* lines 83-122: the call returns one of its results, or raises
MergeCall ==
    /\ mrg_pc = "start"
    /\ LET merged == MergeAndComputeRatio(mrg_prices, mrg_mkt)
       IN  IF merged.ok
           THEN \E c \in merged.frames : mrg_df' = [ok |-> TRUE, rows |-> c]
           ELSE mrg_df' = [ok |-> FALSE, rows |-> <<>>]
    /\ mrg_pc' = "done"
    /\ UNCHANGED <<mrg_prices, mrg_mkt>>
    /\ UNCHANGED <<estVars, stVars, cnvVars, pfVars, getVars, repVars>>

InitMerge(p, m) ==
    /\ mrg_prices = p
    /\ mrg_mkt = m
    /\ mrg_pc = "start"
    /\ mrg_df = [ok |-> TRUE, rows |-> <<>>]

\* no merge is under way
MergeIdle ==
    /\ mrg_prices = EmptyFrame
    /\ mrg_mkt = EmptyFrame
    /\ mrg_pc = "done"
    /\ mrg_df = [ok |-> TRUE, rows |-> <<>>]

\* mkt is None
NoneFrame == [kind |-> "none", tscol |-> "", cols |-> {}, rows |-> <<>>]

\* the price frames of month k given to the merge: the client's non-empty
\* answers; the first hour twice with a price cell that is no number; a
\* row whose timestamp is no date
MergePrices(k) ==
    {f \in PriceFeeds(k) : f.rows # <<>>}
    \cup {Frame(Ept, {"rmccp", "rmpcp"},
                <<PriceRow(HourOf(k, 0), Num(1, 1), Num(1, 1)),
                  PriceRow(HourOf(k, 0), Num(2, 1), Str)>>),
          Frame(Ept, {"rmccp", "rmpcp"},
                <<PriceRow(Garbage, Num(1, 1), Num(1, 1)),
                  PriceRow(HourOf(k, 0), NaN, Num(3, 1))>>)}

\* the market frames of month k given to the merge: the client's answers;
\* None; every hour of the first price answer with no mileage column; a
\* frame with a timestamp column of another name and no mileage column
MergeMarkets(k) ==
    {f \in MarketFeeds(k) : f.kind = "frame"}
    \cup {NoneFrame,
          Frame(Ept, {"mcp"},
                <<MarketRow(HourOf(k, 0), [c \in {"mcp"} |-> Num(7, 1)]),
                  MarketRow(HourOf(k, HoursPerMonth - 1), [c \in {"mcp"} |-> Num(7, 1)])>>),
          Frame("ts", {"mcp"}, <<MarketRow(HourOf(k, 0), [c \in {"mcp"} |-> Num(7, 1)])>>)}

InitMergeInputs ==
    \E k \in ModelMonths : \E p \in MergePrices(k), m \in MergeMarkets(k) : InitMerge(p, m)

\* ------------------------------------------------ budget: the inputs
\* duration_hours and throughput ratios, valid and not
BudgetDurations == {Num(-1, 1), Num(0, 1), Num(1, 2), Num(5, 2)}
BudgetRatios == {Num(-1, 1), Num(0, 1), Num(1, 2), Num(2, 1)}

\* the stitched series the budget is spent on: empty, or three hours
BudgetSeries ==
    {<<>>,
     <<HourRow(0, Num(2, 1), Num(1, 1), Num(1, 1)),
       HourRow(1, Num(1, 1), Num(1, 1), Num(1, 1)),
       HourRow(2, Num(3, 1), Num(1, 1), Num(1, 1))>>}

\* compute_n_hours_from_cycles is called, its result is the n_hours of
\* estimate_reg_revenue_top_n
InitBudget ==
    \E h \in BudgetSeries, dur \in BudgetDurations, tr \in BudgetRatios,
       cy \in (-1)..MaxCycles, w \in (-1)..MaxRows :
        /\ hourly_df = h
        /\ nameplate_mw = Num(2, 1)
        /\ duration_hours = dur
        /\ n_hours = 0
        /\ ranking = "full"
        /\ performance_score = Num(9, 10)
        /\ pc = "budget"
        /\ df = <<>>
        /\ score = <<>>
        /\ tmp = <<>>
        /\ order = <<>>
        /\ visited = 0
        /\ chosen = {}
        /\ n_selected = 0
        /\ max_consecutive = 0
        /\ sel = <<>>
        /\ summary = EmptySummary("full", Num(2, 1), Num(9, 10))
        /\ annual_cycles = cy
        /\ throughput_ratio_mwh_per_hour = tr
        /\ window_hours = w

\* the windows of calls that are repeated: one month of the calendar, or
\* two months in a row
RepeatWindows ==
    {w \in Windows : /\ w[1].hour = 0
                     /\ Len(MonthsInWindow(w[1], w[2])) \in {1, 2}
                     /\ \A i \in 1..Len(MonthsInWindow(w[1], w[2])) :
                            MonthsInWindow(w[1], w[2])[i] \in ModelMonths}

\* the first of two calls; the months outside the window are not cached
InitRepeat ==
    \E w \in RepeatWindows, fm \in BOOLEAN, hc \in BOOLEAN :
        \E cs \in {c \in CacheStates :
                      \A k \in ModelMonths :
                          k \notin Range(MonthsInWindow(w[1], w[2])) => c[k] = "absent"} :
            InitStitch(PricesOf(cs), MarketOf(cs), CombinedOf(cs), w[1], w[2], fm, hc,
                       AnyClient)

\* the answers of a client to the two requests for month k
Answers(k) == {[prices |-> {p}, market |-> {m}] : p \in PriceFeeds(k), m \in MarketFeeds(k)}

\* a month the client is not asked about
Silent == [prices |-> {Raises}, market |-> {Raises}]

\* the clients that give the same answers whenever they are asked about a
\* month of ms
RECURSIVE ClientsFor(_)
ClientsFor(ms) ==
    IF ms = <<>> THEN {[k \in ModelMonths |-> Silent]}
    ELSE {[c EXCEPT ![Head(ms)] = a] : c \in ClientsFor(Tail(ms)), a \in Answers(Head(ms))}

\* a call of load_or_fetch_window_report, to be followed by one of
\* load_or_fetch_window; the months outside the window are not cached
InitLegacy ==
    \E w \in RepeatWindows, fm \in BOOLEAN, hc \in BOOLEAN :
        \E cs \in {c \in CacheStates :
                      \A k \in ModelMonths :
                          k \notin Range(MonthsInWindow(w[1], w[2])) => c[k] = "absent"} :
            \E cl \in ClientsFor(IF fm /\ hc THEN MonthsInWindow(w[1], w[2]) ELSE <<>>) :
                InitStitch(PricesOf(cs), MarketOf(cs), CombinedOf(cs), w[1], w[2], fm, hc, cl)

\* ------------------------------------------------- the prefetch command
\* the first instant of month k
MonthStart(k) == [year |-> k.year, month |-> k.month, hour |-> 0]

\* lines 14-21 of prefetch_pjm_cache.py: _start_end_for_months, t being the
\* month of datetime.now(UTC)
StartEndForMonths(t, n) ==
    LET end_exclusive == MonthStart(t)
        total_months == (end_exclusive.year * 12 + end_exclusive.month - 1) - (n - 1)
        start_year == total_months \div 12
        start_month == (total_months % 12) + 1
    IN  [start |-> MonthStart([year |-> start_year, month |-> start_month]),
         end |-> end_exclusive]

\* lines 34-40 with cache.py 40-49: main derives the window and the months
\* of the window are enumerated
PrefetchWindow ==
    /\ pf_pc = "start"
    /\ pf_window' = StartEndForMonths(today, trailing)
    /\ pf_listed' = MonthsInWindow(pf_window'.start, pf_window'.end)
    /\ pf_pc' = "done"
    /\ UNCHANGED <<today, trailing>>
    /\ UNCHANGED <<estVars, stVars, mrgVars, cnvVars, repVars, getVars>>

InitPrefetch(t, n) ==
    /\ today = t
    /\ trailing = n
    /\ pf_pc = "start"
    /\ pf_window = [start |-> MonthStart(t), end |-> MonthStart(t)]
    /\ pf_listed = <<>>

\* the prefetch command is not run
PrefetchIdle ==
    /\ today = Epoch
    /\ trailing = 1
    /\ pf_pc = "done"
    /\ pf_window = [start |-> MonthStart(Epoch), end |-> MonthStart(Epoch)]
    /\ pf_listed = <<>>

\* the months the command may be run in, and the --months it is given
Todays == {[year |-> y, month |-> m] : y \in {2024, 2025}, m \in 1..12}

InitPrefetchInputs == \E t \in Todays, n \in 1..MaxTrailing : InitPrefetch(t, n)

\* ------------------------------------------------------- PJMClient._get
\* the statuses raise_for_status raises an HTTPError for
ErrorStatuses == {400, 404, 429, 500, 502, 503, 504}

\* mutant: 404 is retried as well
RetryStatusesWith404 == {404, 429, 500, 502, 503, 504}

\* line 119: the statuses after which the request is made again
RetryStatuses == {429, 500, 502, 503, 504}

\* the status of a successful response
StatusOk == 200

\* no response: last_exc is None, or the request failed without a status
NoStatus == 0

\* lines 106-112: a response that raise_for_status accepts; its body holds
\* items, holds none, or is no JSON (resp.json() raises)
GetSuccess ==
    /\ get_pc = "loop"
    /\ attempt <= max_retries
    /\ responses' = Append(responses, StatusOk)
    /\ \E body \in {"items", "no items", "no json"} :
          IF body = "no json"
          THEN /\ get_pc' = "raised"
               /\ get_result' = [kind |-> "JSONDecodeError", status |-> StatusOk]
          ELSE /\ get_pc' = "returned"
               /\ get_result' = [kind |-> body, status |-> StatusOk]
    /\ UNCHANGED <<max_retries, attempt, last_exc>>
    /\ UNCHANGED <<estVars, stVars, mrgVars, cnvVars, repVars, pfVars>>

\* lines 114-122: an HTTPError with a status of line 119: sleep, continue
GetRetry ==
    /\ get_pc = "loop"
    /\ attempt <= max_retries
    /\ \E status \in ErrorStatuses :
          /\ status \in RetryStatuses
          /\ responses' = Append(responses, status)
          /\ last_exc' = status
    /\ attempt' = attempt + 1
    /\ UNCHANGED <<max_retries, get_pc, get_result>>
    /\ UNCHANGED <<estVars, stVars, mrgVars, cnvVars, repVars, pfVars>>

\* lines 114-123: an HTTPError with another status is raised again
GetRaise ==
    /\ get_pc = "loop"
    /\ attempt <= max_retries
    /\ \E status \in ErrorStatuses :
          /\ status \notin RetryStatuses
          /\ responses' = Append(responses, status)
          /\ last_exc' = status
          /\ get_result' = [kind |-> "HTTPError", status |-> status]
    /\ get_pc' = "raised"
    /\ UNCHANGED <<max_retries, attempt>>
    /\ UNCHANGED <<estVars, stVars, mrgVars, cnvVars, repVars, pfVars>>

\* lines 102-108: the request fails without a response (a connection error
\* or a timeout is no HTTPError and leaves the function)
GetNoResponse ==
    /\ get_pc = "loop"
    /\ attempt <= max_retries
    /\ responses' = Append(responses, NoStatus)
    /\ get_pc' = "raised"
    /\ get_result' = [kind |-> "ConnectionError", status |-> NoStatus]
    /\ UNCHANGED <<max_retries, attempt, last_exc>>
    /\ UNCHANGED <<estVars, stVars, mrgVars, cnvVars, repVars, pfVars>>

\* lines 124-126: the loop is over
GetExhausted ==
    /\ get_pc = "loop"
    /\ attempt > max_retries
    /\ IF last_exc # NoStatus
       THEN /\ get_pc' = "raised"
            /\ get_result' = [kind |-> "HTTPError", status |-> last_exc]
       ELSE /\ get_pc' = "returned"
            /\ get_result' = [kind |-> "no items", status |-> NoStatus]
    /\ UNCHANGED <<max_retries, attempt, responses, last_exc>>
    /\ UNCHANGED <<estVars, stVars, mrgVars, cnvVars, repVars, pfVars>>

NextGet == GetSuccess \/ GetRetry \/ GetRaise \/ GetNoResponse \/ GetExhausted

\* lines 86-98: _get is entered on a client with the given max_retries
InitGet(n) ==
    /\ max_retries = n
    /\ attempt = 1
    /\ responses = <<>>
    /\ last_exc = NoStatus
    /\ get_pc = "loop"
    /\ get_result = [kind |-> "none", status |-> NoStatus]

\* _get is not called
GetIdle ==
    /\ max_retries = 0
    /\ attempt = 1
    /\ responses = <<>>
    /\ last_exc = NoStatus
    /\ get_pc = "idle"
    /\ get_result = [kind |-> "none", status |-> NoStatus]

InitGetInputs == \E n \in 0..MaxRetries : InitGet(n)

\* neither the prefetch command nor _get is run
ToolsIdle == PrefetchIdle /\ GetIdle

vars == <<estVars, stVars, mrgVars, cnvVars, repVars, pfVars, getVars>>

\* a call of estimate_reg_revenue_top_n with the selector's inputs
InitSelCall == InitSel /\ StitchIdle /\ MergeIdle /\ ConverterIdle /\ ToolsIdle

SpecSel == InitSelCall /\ [][NextEst]_vars

\* a call of estimate_reg_revenue_top_n with the payment inputs
InitPayCall == InitPay /\ StitchIdle /\ MergeIdle /\ ConverterIdle /\ ToolsIdle

SpecPay == InitPayCall /\ [][NextEst]_vars

\* the estimator is not called
EstIdle == InitEst(<<>>, Num(1, 1), Num(1, 1), 0, "full", Num(1, 1))

\* a call of load_or_fetch_window_report
InitWindowCall == InitWindow /\ EstIdle /\ MergeIdle /\ ConverterIdle /\ ToolsIdle

SpecStitch == InitWindowCall /\ [][NextStitch]_vars

\* a call of _merge_and_compute_ratio
InitMergeCall == InitMergeInputs /\ EstIdle /\ StitchIdle /\ ConverterIdle /\ ToolsIdle

SpecMerge == InitMergeCall /\ [][MergeCall]_vars

\* a call of compute_n_hours_from_cycles followed by the estimator
InitBudgetCall == InitBudget /\ StitchIdle /\ MergeIdle /\ ToolsIdle

SpecBudget == InitBudgetCall /\ [][NextBudget]_vars

\* two calls of estimate_reg_revenue_top_n, the budget of the second larger
\* by one
InitGrowCall == InitGrow /\ StitchIdle /\ MergeIdle /\ ConverterIdle /\ ToolsIdle

SpecGrow == InitGrowCall /\ [][NextGrow]_vars

\* a run of _start_end_for_months and months_in_window
InitPrefetchCall ==
    InitPrefetchInputs /\ GetIdle /\ EstIdle /\ StitchIdle /\ MergeIdle /\ ConverterIdle

SpecPrefetch == InitPrefetchCall /\ [][PrefetchWindow]_vars

\* a call of PJMClient._get
InitGetCall ==
    InitGetInputs /\ PrefetchIdle /\ EstIdle /\ StitchIdle /\ MergeIdle /\ ConverterIdle

SpecGet == InitGetCall /\ [][NextGet]_vars

\* two calls of load_or_fetch_window_report with the same window
InitRepeatCall == InitRepeat /\ EstIdle /\ MergeIdle /\ ConverterIdle /\ ToolsIdle

SpecRepeat == InitRepeatCall /\ [][NextRepeat]_vars

\* load_or_fetch_window_report and load_or_fetch_window on the same cache,
\* window and client
InitLegacyCall == InitLegacy /\ EstIdle /\ MergeIdle /\ ConverterIdle /\ ToolsIdle

SpecLegacy == InitLegacyCall /\ [][NextLegacy]_vars

\* ------------------------------------------------ selector: the claims
\* the hours (timestamps) of the chosen positions of tmp
ChosenHours == {tmp[p].ts : p \in chosen}

\* the hours of the returned selection
ReturnedHours == {sel[i].ts : i \in 1..Len(sel)}

\* max(1, round(duration_hours))
RunLimit == IF Round(duration_hours) >= 1 THEN Round(duration_hours) ELSE 1

\* whether H holds a run of more than lim adjacent calendar hours
HasLongRun(H, lim) == \E h \in H : \A i \in 0..lim : (h + i) \in H

\* the length of the run of adjacent calendar hours of H \cup {h} through h
RECURSIVE HoursBelow(_, _)
HoursBelow(H, h) == IF (h - 1) \in H THEN 1 + HoursBelow(H, h - 1) ELSE 0

RECURSIVE HoursAbove(_, _)
HoursAbove(H, h) == IF (h + 1) \in H THEN 1 + HoursAbove(H, h + 1) ELSE 0

CalendarRun(H, h) == 1 + HoursBelow(H, h) + HoursAbove(H, h)

\* the candidate hours of the input: its distinct valid timestamps
CandidateHours == {ToDatetime(hourly_df[i].ts) : i \in 1..Len(hourly_df)} \ {NaT}

\* C1: after every iteration of the greedy loop, and in the returned
\* selection, no run of adjacent calendar hours is longer than
\* max(1, round(duration_hours)).
C1_RunWithinDuration ==
    /\ ~HasLongRun(ChosenHours, RunLimit)
    /\ pc = "done" => ~HasLongRun(ReturnedHours, RunLimit)

\* a returned selection whose longest run is exactly the limit of 2, with a
\* third adjacent hour among the candidates that was visited and turned down
C1_Witness ==
    /\ pc = "done"
    /\ RunLimit = 2
    /\ \E h \in ReturnedHours :
          /\ (h + 1) \in ReturnedHours
          /\ ((h + 2) \in CandidateHours \/ (h - 1) \in CandidateHours)
    /\ visited > n_selected

\* C2: the number of selected hours is between 0 and min(hours_budget,
\* number of candidate hours) at every step of the loop and on return.
C2_CountWithinBudget ==
    /\ n_selected >= 0
    /\ n_selected <= n_hours
    /\ n_selected <= Cardinality(CandidateHours)
    /\ Cardinality(chosen) = n_selected
    /\ pc = "done" => /\ Len(sel) <= n_hours
                      /\ Len(sel) <= Cardinality(CandidateHours)

\* the budget stops the loop while candidates are left
C2_Witness ==
    /\ pc = "done"
    /\ Len(sel) = n_hours
    /\ n_hours >= 2
    /\ visited < Len(order)
    /\ Cardinality(CandidateHours) > n_hours

\* C4 (as claimed): candidates are visited in score order, and hours of
\* equal score in ascending time order.
C4_TiesInTimeOrder ==
    pc = "pick" =>
        \A i, j \in 1..Len(order) :
            (i < j /\ ~IsNaN(score[order[i]]) /\ ~IsNaN(score[order[j]])) =>
                \/ Less(score[order[j]], score[order[i]])
                \/ /\ score[order[i]] = score[order[j]]
                   /\ df[order[i]].ts < df[order[j]].ts

\* C5 (as claimed): a candidate is turned down only when the run of adjacent
\* calendar hours it would join exceeds the limit; selected hours beyond a
\* gap of the series do not count.  (The last visited candidate, if it is
\* not chosen, was turned down against the mask as it stands.)
C5_GapBreaksRun ==
    (pc = "pick" /\ visited >= 1 /\ PosMap(tmp, order[visited]) \notin chosen) =>
        CalendarRun(ChosenHours, df[order[visited]].ts) > max_consecutive

\* the number of runs of adjacent calendar hours of H
RunCount(H) == Cardinality({h \in H : (h - 1) \notin H})

\* C3 (as claimed): in Scenario A exactly 6 hours are returned, in exactly
\* two separate runs of at most 3 adjacent hours each.
C3_ScenarioA ==
    (IsScenarioA /\ pc = "done") =>
        /\ Len(sel) = 6
        /\ RunCount(ReturnedHours) = 2
        /\ ~HasLongRun(ReturnedHours, 3)

\* ------------------------------------------------ payments: the claims
\* whether the three price cells of a row are numbers
Priced(r) == IsNum(ToNumeric(r.rmccp)) /\ IsNum(ToNumeric(r.rmpcp))
             /\ IsNum(ToNumeric(r.mileage_ratio))

\* C6: every selected hour (with numeric prices and ratio) carries
\* capability_credit = rmccp * mw * score, performance_credit = rmpcp * mw *
\* mileage_ratio * score and total = their sum; Scenario D gives 18, 18, 36.
C6_HourlyCredits ==
    pc = "done" =>
        \A i \in 1..Len(sel) :
            LET r == sel[i] IN
            /\ Priced(r) =>
                /\ r.capability_credit_usd
                     = Mul(r.rmccp, Mul(nameplate_mw, performance_score))
                /\ r.performance_credit_usd
                     = Mul(Mul(r.rmpcp, r.mileage_ratio),
                           Mul(nameplate_mw, performance_score))
                /\ r.total_payment_usd
                     = Add(r.capability_credit_usd, r.performance_credit_usd)
            /\ (/\ nameplate_mw = Num(2, 1) /\ performance_score = Num(9, 10)
                /\ r.rmccp = Num(10, 1) /\ r.rmpcp = Num(5, 1)
                /\ r.mileage_ratio = Num(2, 1)) =>
                /\ r.capability_credit_usd = Num(18, 1)
                /\ r.performance_credit_usd = Num(18, 1)
                /\ r.total_payment_usd = Num(36, 1)

\* Scenario D: a selected hour at 10 / 5 / ratio 2, power 2, score 0.9
C6_Witness ==
    /\ pc = "done"
    /\ nameplate_mw = Num(2, 1)
    /\ performance_score = Num(9, 10)
    /\ \E i \in 1..Len(sel) :
          /\ sel[i].rmccp = Num(10, 1)
          /\ sel[i].rmpcp = Num(5, 1)
          /\ sel[i].mileage_ratio = Num(2, 1)
          /\ sel[i].total_payment_usd = Num(36, 1)

\* ------------------------------------------------ stitcher: the claims
\* the hours of the returned series
OutHours == {out[i].ts : i \in 1..Len(out)}

\* the month of a report entry
EntryMonth(e) == [year |-> e.year, month |-> e.month]

\* the hours of the rows of month k's combined partition
PartitionHours(k) == {combined_fs[k].frame.rows[i].ts : i \in 1..Len(combined_fs[k].frame.rows)}

\* C7: every record of the series the stitcher returns has a mileage_ratio
\* that is a finite number greater than 0 (never NaN or infinite)
C7_RatioFinitePositive ==
    spc = "done" =>
        \A i \in 1..Len(out) : IsNum(out[i].mileage_ratio) /\ out[i].mileage_ratio.n > 0

\* Scenario E of the specification: a window of three months, the first
\* and the third cached, the second fetched with the client raising
IsScenarioE ==
    /\ Len(months) = 3
    /\ fetch_missing /\ has_client
    /\ raised = {months[2]}
    /\ Len(report) = 3
    /\ report[1].action = "loaded" /\ report[3].action = "loaded"

\* C8: a month without a cached partition whose fetch meets a raising
\* client is reported with action error, the error detail and no rows; in
\* Scenario E the report reads loaded, error, loaded and the series holds
\* the hours of months 1 and 3 only
C8_ClientRaiseReportsError ==
    spc = "done" =>
        /\ \A i \in 1..Len(report) :
              EntryMonth(report[i]) \in raised =>
                  /\ report[i].action = "error"
                  /\ report[i].error # "None"
                  /\ report[i].rows = 0
        /\ IsScenarioE =>
              /\ report[2].action = "error"
              /\ OutHours = PartitionHours(months[1]) \cup PartitionHours(months[3])

NoMileage(m) ==
    \/ m.rows = <<>>
    \/ /\ \A i \in 1..Len(RegAAliases) : RegAAliases[i] \notin m.cols
       /\ \A i \in 1..Len(RegDAliases) : RegDAliases[i] \notin m.cols

\* the valid price hours given to the merge
PriceHours == {ToDatetime(mrg_prices.rows[i].ts) : i \in 1..Len(mrg_prices.rows)} \ {NaT}

\* C10: merging a month whose mileage frame is absent, empty or without a
\* known alias does not fail, gives every price hour a mileage_ratio of
\* exactly 1.0 and keeps the prices
C10_NoMileageGivesOne ==
    (mrg_pc = "done" /\ NoMileage(mrg_mkt) /\ mrg_prices.tscol = Ept) =>
        /\ mrg_df.ok
        /\ {mrg_df.rows[i].ts : i \in 1..Len(mrg_df.rows)} = PriceHours
        /\ \A i \in 1..Len(mrg_df.rows) : mrg_df.rows[i].mileage_ratio = Num(1, 1)
        /\ \A i \in 1..Len(mrg_df.rows) :
              \E j \in 1..Len(mrg_prices.rows) :
                  /\ ToDatetime(mrg_prices.rows[j].ts) = mrg_df.rows[i].ts
                  /\ ToNumeric(mrg_prices.rows[j].rmccp) = mrg_df.rows[i].rmccp
                  /\ ToNumeric(mrg_prices.rows[j].rmpcp) = mrg_df.rows[i].rmpcp

\* --------------------------------------------------- budget: the claims
\* the hours budget as the specification writes it
ClampedBudget ==
    LET t == IF Less(throughput_ratio_mwh_per_hour, Epsilon) THEN Epsilon
             ELSE throughput_ratio_mwh_per_hour
        cy == IF annual_cycles > 0 THEN annual_cycles ELSE 0
        w == IF window_hours > 0 THEN window_hours ELSE 0
        raw == Floor(Mul(Div(duration_hours, t), Int2Num(cy)))
        low == IF raw > 0 THEN raw ELSE 0
    IN  IF low < w THEN low ELSE w

\* C11: the budget converter returns
\* min(max(floor(duration / max(ratio, epsilon) * max(cycles, 0)), 0), max(window_hours, 0)),
\* an integer that is never negative and never more than the hours of the
\* window
C11_BudgetClamped ==
    pc # "budget" =>
        /\ n_hours = ClampedBudget
        /\ n_hours \in Int
        /\ n_hours >= 0
        /\ n_hours <= (IF window_hours > 0 THEN window_hours ELSE 0)

\* the raw hours exceed the hours of a non-empty window, the clamp acts
C11_Witness ==
    /\ pc # "budget"
    /\ window_hours > 0
    /\ ComputeNHoursUnclamped(duration_hours, annual_cycles,
                              throughput_ratio_mwh_per_hour, window_hours) > window_hours
    /\ n_hours = window_hours

\* a configuration the specification calls invalid
InvalidConfig ==
    \/ ~Less(Num(0, 1), duration_hours)
    \/ ~Less(Num(0, 1), throughput_ratio_mwh_per_hour)
    \/ n_hours < 0

\* C12: with a non-positive duration_hours, a throughput ratio <= 0 or a
\* negative budget, the converter and the estimator end in an error: no
\* budget is handed on and no selection is made
C12_InvalidConfigRejected == InvalidConfig => pc \in {"budget", "error"}

\* ------------------------------------------- empty selection: the claims
\* C13: with a budget <= 0, an empty series, or no hour selected, the
\* estimator returns an empty selection and a summary with 0 selected
\* hours, credit sums of 0 and averages that are NaN
C13_EmptySelectionSummary ==
    (pc = "done" /\ (n_hours <= 0 \/ hourly_df = <<>> \/ sel = <<>>)) =>
        /\ sel = <<>>
        /\ summary.selected_hours = 0
        /\ summary.capability_credit_usd = Num(0, 1)
        /\ summary.performance_credit_usd = Num(0, 1)
        /\ summary.total_payment_usd = Num(0, 1)
        /\ IsNaN(summary.avg_rmccp)
        /\ IsNaN(summary.avg_rmpcp)
        /\ IsNaN(summary.avg_mileage_ratio)

\* Scenario B: a series with rows and a budget of 0
C13_Witness == pc = "done" /\ hourly_df # <<>> /\ n_hours = 0 /\ sel = <<>>

\* ------------------------------------------- repeated stitch: the claims
\* the cache directory as it is now
CacheNow == <<prices_fs, market_fs, combined_fs>>

Loaded == Concat(parts)

\* C15: the returned series has strictly ascending timestamps, and of the
\* loaded records with one timestamp it holds the first in month-by-month
\* concatenation order
C15_AscendingKeepFirst ==
    spc = "done" =>
        /\ \A i \in 1..(Len(out) - 1) : out[i].ts < out[i + 1].ts
        /\ OutHours = {Loaded[i].ts : i \in 1..Len(Loaded)}
        /\ \A i \in 1..Len(out) :
              \E j \in 1..Len(Loaded) :
                  /\ Loaded[j] = out[i]
                  /\ \A l \in 1..(j - 1) : Loaded[l].ts # out[i].ts

\* a returned series for which the same hour was loaded with different
\* values, within a month and from two months
C15_Witness ==
    /\ spc = "done"
    /\ \E i, j \in 1..Len(Loaded) :
          i < j /\ Loaded[i].ts = Loaded[j].ts /\ Loaded[i] # Loaded[j]
    /\ \E i, j \in 1..Len(parts) :
          i < j /\ \E a \in 1..Len(parts[i]), b \in 1..Len(parts[j]) :
                        parts[i][a].ts = parts[j][b].ts /\ parts[i][a] # parts[j][b]

\* the hours of the window [start, end)
WindowHours == HourOf(MonthOf(start), start.hour)..(HourOf(MonthOf(end), end.hour) - 1)

\* C16: the report has exactly one entry, in chronological order and with
\* one of the four actions, for each calendar month holding an hour of the
\* window, also when the window ends in the middle of a month
C16_ReportCoversWindow ==
    spc = "done" =>
        /\ \A t \in WindowHours :
              \E i \in 1..Len(report) : EntryMonth(report[i]) = MonthOfHour(t)
        /\ \A i \in 1..Len(report) :
              /\ report[i].action \in {"loaded", "fetched", "missing", "error"}
              /\ \E t \in WindowHours : MonthOfHour(t) = EntryMonth(report[i])
        /\ \A i, j \in 1..Len(report) :
              i < j => MonthBefore(EntryMonth(report[i]), EntryMonth(report[j]))

\* C17: a month without a cached partition for which the client answered
\* the price request with rows under the column name PJMClient gives them
\* ("ts") has a combined partition, is reported fetched with the rows of
\* that partition, and its hours are in the returned series
C17_ClientFeedFetched ==
    spc = "done" =>
        \A i \in 1..Len(report) :
            LET k == months[i]
            IN  (prices_fs[k].state = "ok" /\ prices_fs[k].frame.tscol = "ts") =>
                    /\ report[i].action = "fetched"
                    /\ combined_fs[k].state = "ok"
                    /\ report[i].rows = Len(combined_fs[k].frame.rows)
                    /\ report[i].rows > 0
                    /\ PartitionHours(k) \subseteq OutHours

\* C19: every file of the cache directory that existed before the call,
\* readable or not, has the content it had
C19_ExistingPartitionsKept ==
    \A k \in ModelMonths :
        /\ first_cache[1][k].state # "absent" => prices_fs[k] = first_cache[1][k]
        /\ first_cache[2][k].state # "absent" => market_fs[k] = first_cache[2][k]
        /\ first_cache[3][k].state # "absent" => combined_fs[k] = first_cache[3][k]

\* ------------------------------------------------- ranking: the claims
\* capability_price + performance_price * mileage_ratio of each row of df:
\* the full hourly payment of 1 MW at a performance score of 1
PriceScore ==
    [i \in 1..Len(df) |-> HourlyPaymentComponents(df[i], Num(1, 1), Num(1, 1)).total]

\* the positions the greedy pick chooses when it visits the candidates in
\* order o, from the i-th on, ch being chosen already
RECURSIVE GreedyChosen(_, _, _)
GreedyChosen(o, i, ch) ==
    IF i > Len(o) \/ Cardinality(ch) >= n_hours THEN ch
    ELSE LET pos == PosMap(tmp, o[i])
             ok == pos # 0 /\ RunLen(ch \cup {pos}, pos, Len(tmp)) <= max_consecutive
         IN  GreedyChosen(o, i + 1, IF ok THEN ch \cup {pos} ELSE ch)

\* the sets of hours the pick can select when the rows are ranked by
\* PriceScore
PriceSelections ==
    {{tmp[p].ts : p \in GreedyChosen(o, 1, {})} : o \in SortValuesDescending(tmp, PriceScore)}

\* C20: under the full ranking the selected hours are a selection that
\* ranking on capability_price + performance_price * mileage_ratio alone
\* gives, whatever nameplate_mw > 0 and performance_score in [0, 1] are
C20_RankingIgnoresMultipliers ==
    (pc = "done" /\ ranking = "full" /\ n_hours > 0 /\ hourly_df # <<>>) =>
        ReturnedHours \in PriceSelections

\* C18: without fetch_missing or without a client the call does not end in
\* an exception, makes no request to the client, leaves every file of the
\* cache directory as it was, and reports every month without a readable
\* partition as missing with 0 rows
C18_CacheOnly ==
    ~(fetch_missing /\ has_client) =>
        /\ spc # "raised"
        /\ client_calls = <<>>
        /\ CacheNow = first_cache
        /\ spc = "done" =>
              /\ Len(report) = Len(months)
              /\ \A i \in 1..Len(report) :
                    ~LoadCachedMonth(combined_fs, months[i]).some =>
                        report[i].action = "missing" /\ report[i].rows = 0

\* a returned call with a client but without fetch_missing, one month not
\* cached and another unreadable
C18_Witness ==
    /\ spc = "done" /\ has_client /\ ~fetch_missing
    /\ \E i, j \in 1..Len(report) :
          /\ combined_fs[months[i]].state = "absent"
          /\ combined_fs[months[j]].state = "corrupt"
    /\ \E i \in 1..Len(report) : report[i].action = "loaded"

\* ------------------------------------------------- payments: the claims
\* the total payment of the returned hours at performance score p and
\* asset power m
Revenue(p, m) ==
    SumSkipNa([i \in 1..Len(sel) |-> HourlyPaymentComponents(sel[i], m, p).total])

\* the total payment of the returned hours does not fall when the
\* performance score, or the asset power, is raised
RevenueMonotone ==
    /\ \A p \in PerfScores :
          Less(performance_score, p) =>
              ~Less(Revenue(p, nameplate_mw), summary.total_payment_usd)
    /\ \A m \in AssetPowers :
          Less(nameplate_mw, m) =>
              ~Less(Revenue(performance_score, m), summary.total_payment_usd)

\* no returned hour has a negative price or a negative mileage ratio
NoNegativePrice ==
    \A i \in 1..Len(sel) :
        \A c \in {"rmccp", "rmpcp", "mileage_ratio"} :
            ~Less(NumCol(sel[i], c), Num(0, 1))

\* C21 as stated: for the returned hours, whatever their prices, the total
\* payment is non-decreasing in performance_score and in nameplate_mw
C21_RevenueMonotoneAnyPrice == pc = "done" => RevenueMonotone

\* C21: for returned hours none of which has a negative price or mileage
\* ratio, the total payment is non-decreasing in performance_score (asset
\* power fixed) and in nameplate_mw (performance score fixed)
C21_RevenueMonotone == (pc = "done" /\ NoNegativePrice) => RevenueMonotone

\* a call that returned hours of positive prices whose payment is strictly
\* larger at a higher performance score and at a higher asset power
C21_Witness ==
    /\ pc = "done" /\ sel # <<>> /\ NoNegativePrice
    /\ \E p \in PerfScores : Less(summary.total_payment_usd, Revenue(p, nameplate_mw))
    /\ \E m \in AssetPowers : Less(summary.total_payment_usd, Revenue(performance_score, m))

\* the sum of a credit column of the returned hours
CreditSum(col) == SumSkipNa([i \in 1..Len(sel) |-> sel[i][col]])

\* C22: the summary is that of the returned hours: selected_hours is their
\* number, each credit sum is the sum of that credit column over them, and
\* total_payment_usd is capability_credit_usd + performance_credit_usd
C22_SummaryOfSelection ==
    (pc = "done" /\ sel # <<>>) =>
        /\ summary.selected_hours = Len(sel)
        /\ summary.capability_credit_usd = CreditSum("capability_credit_usd")
        /\ summary.performance_credit_usd = CreditSum("performance_credit_usd")
        /\ summary.total_payment_usd = CreditSum("total_payment_usd")
        /\ summary.total_payment_usd =
               Add(summary.capability_credit_usd, summary.performance_credit_usd)

\* a call that returned two hours, with capability and performance credits
\* that are not zero and are not those of one hour alone
C22_Witness ==
    /\ pc = "done" /\ Len(sel) = 2
    /\ summary.capability_credit_usd # Num(0, 1)
    /\ summary.performance_credit_usd # Num(0, 1)
    /\ summary.capability_credit_usd # sel[1].capability_credit_usd

\* ------------------------------------------ returned hours: the claims
\* whether returned row r is a row of the input series
IsInputRow(r) ==
    \E j \in 1..Len(hourly_df) :
        /\ hourly_df[j].ts = r.ts
        /\ hourly_df[j].rmccp = r.rmccp
        /\ hourly_df[j].rmpcp = r.rmpcp
        /\ hourly_df[j].mileage_ratio = r.mileage_ratio

\* C23: the returned hours are rows of the input series, in strictly
\* ascending order of their timestamps (so no timestamp comes back twice),
\* whatever the order and the repetitions of the input rows
C23_ChronologicalSubsequence ==
    pc = "done" =>
        /\ \A i \in 1..Len(sel) : sel[i].ts # NaT /\ IsInputRow(sel[i])
        /\ \A i, j \in 1..Len(sel) : i < j => sel[i].ts < sel[j].ts

\* a call on a series that is out of order and repeats a timestamp that is
\* returned, with two hours returned
C23_Witness ==
    /\ pc = "done" /\ Len(sel) >= 2
    /\ \E i, j \in 1..Len(hourly_df) : i < j /\ hourly_df[i].ts > hourly_df[j].ts
    /\ \E i, j \in 1..Len(hourly_df) :
          /\ i # j /\ hourly_df[i].ts = hourly_df[j].ts
          /\ hourly_df[i].ts \in ReturnedHours

\* ------------------------------------------------- months: the claims
\* the instant of a datetime, in hours since the Epoch
Instant(dt) == HourOf(MonthOf(dt), dt.hour)

\* the months of the calendar whose first instant lies in [start, end)
MonthsStartingInWindow ==
    {CalendarSeq[i] : i \in {j \in 1..(NMonths + 1) :
        /\ Instant(start) <= HourOf(CalendarSeq[j], 0)
        /\ HourOf(CalendarSeq[j], 0) < Instant(end)}}

\* C24: months_in_window(start, end) yields, ascending and with neither
\* repeats nor gaps, exactly the months whose first instant lies in
\* [start, end), and the month of end is not among them
C24_MonthsInWindow ==
    spc = "done" =>
        /\ Range(months) = MonthsStartingInWindow
        /\ \A i \in 1..(Len(months) - 1) : months[i + 1] = NextMonth(months[i])
        /\ \A i, j \in 1..Len(months) : i < j => MonthBefore(months[i], months[j])
        /\ MonthOf(end) \notin Range(months)

\* ----------------------------------------------- the legacy loader: claims
\* the legacy call is over
LegacyOver == calls = 2 /\ spc \in {"legacy_done", "raised"}

\* C25: load_or_fetch_window returns when load_or_fetch_window_report did,
\* with the same rows, and leaves the cache directory as that call left it
C25_LegacyEquivalent ==
    LegacyOver =>
        /\ spc = "legacy_done"
        /\ out = first_out
        /\ CacheNow = first_after

\* ------------------------------------------------ read-through: the claims
\* the rows of a series that lie in month k
RowsOfMonth(series, k) == SelectSeq(series, LAMBDA r : MonthOfHour(r.ts) = k)

\* C26: in the second of two calls with the same window, a month the first
\* call reported fetched is reported loaded with the same row count and the
\* same rows and the client is not asked about it; a month the first call
\* reported missing or error is requested from the client again when the
\* second call fetches
C26_ReadThrough ==
    (spc = "done" /\ calls = 2) =>
        \A i \in 1..Len(first_report) :
            LET k == months[i]
            IN  /\ first_report[i].action = "fetched" =>
                      /\ report[i].action = "loaded"
                      /\ report[i].rows = first_report[i].rows
                      /\ combined_fs[k] = first_after[3][k]
                      /\ RowsOfMonth(out, k) = RowsOfMonth(first_out, k)
                      /\ k \notin Range(client_calls)
                /\ (first_report[i].action \in {"missing", "error"}
                       /\ fetch_missing /\ has_client) =>
                      k \in Range(client_calls)

\* the second call has returned: a month the first call fetched with rows
\* is loaded, and a month the first call reported as error was requested
\* again
C26_Witness ==
    /\ spc = "done" /\ calls = 2
    /\ \E i, j \in 1..Len(first_report) :
          /\ first_report[i].action = "fetched" /\ first_report[i].rows > 0
          /\ report[i].action = "loaded"
          /\ first_report[j].action = "error"
          /\ months[j] \in Range(client_calls)

\* ------------------------------------------------ maximality: the claims
\* C27: when fewer hours than the budget are returned, adding any candidate
\* hour that was not returned would give a run of adjacent calendar hours
\* longer than max_consecutive; and with a budget of at least 1 the first
\* candidate in score order is returned
C27_GreedyMaximal ==
    pc = "done" =>
        /\ Len(sel) < n_hours =>
              \A h \in CandidateHours \ ReturnedHours :
                  CalendarRun(ReturnedHours, h) > RunLimit
        /\ (n_hours >= 1 /\ order # <<>>) => df[order[1]].ts \in ReturnedHours

\* ----------------------------------------------- budget growth: the claims
\* the hours the first of two calls returned
FirstHours == {first_sel.rows[i].ts : i \in 1..Len(first_sel.rows)}

\* C28: the hours selected with a budget of n are among the hours selected
\* with a budget of n + 1, the series, ranking and duration being the same
C28_GrowsWithBudget ==
    (pc = "done" /\ first_sel.done) => FirstHours \subseteq ReturnedHours

\* the second call has returned one hour more than the first, which had
\* returned hours and had turned a candidate down
C28_Witness ==
    /\ pc = "done" /\ first_sel.done
    /\ FirstHours # {}
    /\ Cardinality(ReturnedHours) = Cardinality(FirstHours) + 1
    /\ visited > n_selected

\* ------------------------------------------- the prefetch window: claims
\* C29: the window of _start_end_for_months(months) ends at the first
\* instant of the current month and months_in_window lists exactly `months`
\* months for it, the last being the month before the current one
C29_TrailingMonths ==
    (pf_pc = "done" /\ trailing >= 1) =>
        /\ pf_window.end = MonthStart(today)
        /\ Len(pf_listed) = trailing
        /\ NextMonth(pf_listed[Len(pf_listed)]) = today

\* ------------------------------------------------------ _get: the claims
\* the statuses the claim names as retried
ClaimedRetryable == {429, 500, 502, 503, 504}

LastResponse == responses[Len(responses)]

\* _get makes at most max_retries requests; every response but the last
\* had a retried status; a response with another status ends the call at
\* once: a successful one is returned (unless its body cannot be decoded),
\* another HTTP error is raised; when max_retries responses all had a
\* retried status the last of these errors is raised; nothing is returned
\* without a successful response
GetContract ==
    /\ Len(responses) <= max_retries
    /\ attempt <= max_retries + 1
    /\ \A i \in 1..(Len(responses) - 1) : responses[i] \in ClaimedRetryable
    /\ (responses # <<>> /\ LastResponse \notin ClaimedRetryable) =>
          /\ get_pc \in {"returned", "raised"}
          /\ get_result.status = LastResponse
          /\ LastResponse \in ErrorStatuses =>
                get_pc = "raised" /\ get_result.kind = "HTTPError"
    /\ get_pc = "returned" =>
          /\ responses # <<>>
          /\ LastResponse = StatusOk
          /\ get_result.kind \in {"items", "no items"}
    /\ (get_pc = "raised" /\ get_result.kind = "HTTPError") =>
          /\ get_result.status = LastResponse
          /\ LastResponse \in ClaimedRetryable => Len(responses) = max_retries
    /\ (get_pc \in {"returned", "raised"} /\ Len(responses) = max_retries
           /\ \A i \in 1..Len(responses) : responses[i] \in ClaimedRetryable) =>
          /\ get_pc = "raised"
          /\ get_result = [kind |-> "HTTPError", status |-> LastResponse]

\* C30 as stated, for every max_retries
C30_GetAnyRetries == get_pc # "idle" => GetContract

\* C30: for max_retries >= 1, _get ends after at most max_retries requests,
\* returns the first successful response, repeats the request only after
\* 429, 500, 502, 503 or 504, raises at once on another HTTP error, and
\* raises the last HTTP error when max_retries requests have all failed
\* with one of these statuses
C30_GetRetries == (get_pc # "idle" /\ max_retries >= 1) => GetContract

\* max_retries requests, two or more, have all failed with a retried
\* status and the last error has been raised
C30_Witness ==
    /\ get_pc = "raised" /\ max_retries >= 2
    /\ Len(responses) = max_retries
    /\ \A i \in 1..Len(responses) : responses[i] \in ClaimedRetryable
    /\ get_result.status = LastResponse

====
